---- MODULE Spec2Model ----
(***************************************************************************)
(* Model of the filing engine of modules/filing.py: crawl_file_system,     *)
(* analyze_existing_structure, suggest_filing_location, generate_filename, *)
(* analyze_document_for_filing and save_file, over an explicit file        *)
(* system.  Text is modelled by strings, paths by sequences of path        *)
(* components, scores by twice their value (the depth penalty is 0.5 per   *)
(* level).                                                                 *)
(***************************************************************************)
EXTENDS Integers, Sequences, FiniteSets, TLC

(***************************************************************************)
(* Bounds of the model.                                                    *)
(***************************************************************************)
MaxClock == 1
MaxSaves == 2
MaxRequests == 2
MaxCalls == 3
MaxFilesArg == 2
MaxDepthArg == 3

(***************************************************************************)
(* Text: the str methods the code uses.                                    *)
(***************************************************************************)
UpperLetters == <<"A","B","C","D","E","F","G","H","I","J","K","L","M",
                  "N","O","P","Q","R","S","T","U","V","W","X","Y","Z">>
LowerLetters == <<"a","b","c","d","e","f","g","h","i","j","k","l","m",
                  "n","o","p","q","r","s","t","u","v","w","x","y","z">>
Digits == {"0","1","2","3","4","5","6","7","8","9"}

Range(f) == {f[i] : i \in DOMAIN f}
IsUpper(c) == c \in Range(UpperLetters)
IsLower(c) == c \in Range(LowerLetters)
IsAlphaChar(c) == IsUpper(c) \/ IsLower(c)
IsDigit(c) == c \in Digits
IsAlnum(c) == IsAlphaChar(c) \/ IsDigit(c)

IndexOf(c, letters) == CHOOSE i \in DOMAIN letters : letters[i] = c
LowerChar(c) == IF IsUpper(c) THEN LowerLetters[IndexOf(c, UpperLetters)] ELSE c
UpperChar(c) == IF IsLower(c) THEN UpperLetters[IndexOf(c, LowerLetters)] ELSE c

CharAt(s, i) == SubSeq(s, i, i)

RECURSIVE MapChars(_, _, _)
MapChars(s, i, acc) ==
    IF i > Len(s) THEN acc
    ELSE MapChars(s, i + 1, acc \o LowerChar(CharAt(s, i)))

\* str.lower()
Lower(s) == MapChars(s, 1, "")

\* `sub in s` on strings
Contains(sub, s) ==
    \E i \in 1..(Len(s) - Len(sub) + 1) : SubSeq(s, i, i + Len(sub) - 1) = sub

StartsWith(s, pre) == Len(s) >= Len(pre) /\ SubSeq(s, 1, Len(pre)) = pre

\* str.isalpha(): non-empty and every character a letter
IsAlpha(s) == Len(s) > 0 /\ \A i \in 1..Len(s) : IsAlphaChar(CharAt(s, i))

RECURSIVE TitleFrom(_, _, _, _)
TitleFrom(s, i, prevCased, acc) ==
    IF i > Len(s) THEN acc
    ELSE LET c == CharAt(s, i) IN
         TitleFrom(s, i + 1, IsAlphaChar(c),
                   acc \o (IF prevCased THEN LowerChar(c) ELSE UpperChar(c)))

\* str.title()
Title(s) == TitleFrom(s, 1, FALSE, "")

RECURSIVE SplitFrom(_, _, _, _, _)
SplitFrom(s, sep, i, cur, acc) ==
    IF i > Len(s) THEN (IF cur = "" THEN acc ELSE Append(acc, cur))
    ELSE IF CharAt(s, i) = sep
         THEN SplitFrom(s, sep, i + 1, "", IF cur = "" THEN acc ELSE Append(acc, cur))
         ELSE SplitFrom(s, sep, i + 1, cur \o CharAt(s, i), acc)

\* str.split(): the non-empty runs between blanks
Split(s) == SplitFrom(s, " ", 1, "", <<>>)

RECURSIVE JoinFrom(_, _, _)
JoinFrom(sep, parts, i) ==
    IF i > Len(parts) THEN ""
    ELSE IF i = Len(parts) THEN parts[i]
    ELSE parts[i] \o sep \o JoinFrom(sep, parts, i + 1)

\* sep.join(parts)
Join(sep, parts) == JoinFrom(sep, parts, 1)

(***************************************************************************)
(* The file system.  A node is [path, kind, data, mode]; a path is the     *)
(* sequence of its components below the root <<>>; the order of the nodes  *)
(* in the sequence is the order in which a directory listing returns them. *)
(* mode: "rw" (listable, writable), "r" (listable, read-only), "none"      *)
(* (searchable only).  The root is a read-only directory.                  *)
(***************************************************************************)
Parent(p) == SubSeq(p, 1, Len(p) - 1)
Last(p) == p[Len(p)]

HasNode(f, p) == \E i \in DOMAIN f : f[i].path = p
NodeOf(f, p) == f[CHOOSE i \in DOMAIN f : f[i].path = p]

RECURSIVE Resolve(_, _, _)
\* what the operating system makes of a path: ".." steps to the parent
Resolve(p, i, acc) ==
    IF i > Len(p) THEN acc
    ELSE IF p[i] = ".."
         THEN Resolve(p, i + 1, IF acc = <<>> THEN acc ELSE Parent(acc))
         ELSE Resolve(p, i + 1, Append(acc, p[i]))

Real(p) == Resolve(p, 1, <<>>)

\* every directory named on the way to p (before a "..") exists
RECURSIVE Walkable(_, _, _)
Walkable(f, p, i) ==
    IF i > Len(p) THEN TRUE
    ELSE LET pre == Resolve(SubSeq(p, 1, i - 1), 1, <<>>) IN
         /\ (pre = <<>> \/ (HasNode(f, pre) /\ NodeOf(f, pre).kind = "dir"))
         /\ Walkable(f, p, i + 1)

\* Path.exists()
Exists(f, p) == Walkable(f, p, 1) /\ (Real(p) = <<>> \/ HasNode(f, Real(p)))
\* Path.is_dir()
IsDir(f, p) == Exists(f, p) /\ (Real(p) = <<>> \/ NodeOf(f, Real(p)).kind = "dir")
ModeOf(f, p) == IF Real(p) = <<>> THEN "r" ELSE NodeOf(f, Real(p)).mode
\* os.access(p, os.W_OK)
Writable(f, p) == Exists(f, p) /\ ModeOf(f, p) = "rw"
Listable(f, p) == IsDir(f, p) /\ ModeOf(f, p) # "none"

RECURSIVE ChildrenFrom(_, _, _)
ChildrenFrom(f, p, i) ==
    IF i > Len(f) THEN <<>>
    ELSE (IF Len(f[i].path) = Len(p) + 1 /\ Parent(f[i].path) = p
          THEN <<f[i]>> ELSE <<>>) \o ChildrenFrom(f, p, i + 1)

\* Path.iterdir() / os.scandir(): the entries of directory p, in listing order
Children(f, p) == ChildrenFrom(f, p, 1)

RECURSIVE NamesOfKind(_, _, _)
NamesOfKind(nodes, isdir, i) ==
    IF i > Len(nodes) THEN <<>>
    ELSE (IF (nodes[i].kind = "dir") = isdir THEN <<Last(nodes[i].path)>> ELSE <<>>)
         \o NamesOfKind(nodes, isdir, i + 1)

RECURSIVE os_walk(_, _)
RECURSIVE WalkDirs(_, _, _, _)
WalkDirs(f, top, dirs, i) ==
    IF i > Len(dirs) THEN <<>>
    ELSE os_walk(f, Append(top, dirs[i])) \o WalkDirs(f, top, dirs, i + 1)

\* os.walk(top): top-down triples (root, dirs, files); a directory that
\* cannot be listed is skipped silently
os_walk(f, top) ==
    IF ~Listable(f, top) THEN <<>>
    ELSE LET dirs == NamesOfKind(Children(f, top), TRUE, 1)
             files == NamesOfKind(Children(f, top), FALSE, 1)
         IN <<[root |-> top, dirs |-> dirs, files |-> files]>>
            \o WalkDirs(f, top, dirs, 1)

RECURSIVE LastDot(_, _)
LastDot(name, i) ==
    IF i < 1 THEN 0
    ELSE IF CharAt(name, i) = "." THEN i ELSE LastDot(name, i - 1)

\* PurePath.suffix and PurePath.stem of a file name
HasSuffix(name) == LET i == LastDot(name, Len(name)) IN i > 1 /\ i < Len(name)
Suffix(name) ==
    IF HasSuffix(name) THEN SubSeq(name, LastDot(name, Len(name)), Len(name)) ELSE ""
Stem(name) ==
    IF HasSuffix(name) THEN SubSeq(name, 1, LastDot(name, Len(name)) - 1) ELSE name

(***************************************************************************)
(* Insertion-ordered dictionaries of counters, as sequences of             *)
(* [key, count] pairs (a Python dict keeps insertion order).               *)
(***************************************************************************)
HasKey(d, k) == \E i \in DOMAIN d : d[i].key = k
KeyIndex(d, k) == CHOOSE i \in DOMAIN d : d[i].key = k
CountOf(d, k) == IF HasKey(d, k) THEN d[KeyIndex(d, k)].count ELSE 0
\* d[k] = d.get(k, 0) + 1
Incr(d, k) ==
    IF HasKey(d, k)
    THEN [d EXCEPT ![KeyIndex(d, k)].count = @ + 1]
    ELSE Append(d, [key |-> k, count |-> 1])
\* d[k] = 1
SetOne(d, k) ==
    IF HasKey(d, k)
    THEN [d EXCEPT ![KeyIndex(d, k)].count = 1]
    ELSE Append(d, [key |-> k, count |-> 1])

RECURSIVE SumCounts(_, _)
SumCounts(d, i) == IF i > Len(d) THEN 0 ELSE d[i].count + SumCounts(d, i + 1)

\* structure["folders"]: a sequence of [depth, names], names a counter dict
HasDepth(folders, depth) == \E i \in DOMAIN folders : folders[i].depth = depth
DepthIndex(folders, depth) == CHOOSE i \in DOMAIN folders : folders[i].depth = depth
FoldersAt(folders, depth) ==
    IF HasDepth(folders, depth) THEN folders[DepthIndex(folders, depth)].names ELSE <<>>
FolderIncr(folders, depth, name) ==
    LET fs1 == IF HasDepth(folders, depth) THEN folders
               ELSE Append(folders, [depth |-> depth, names |-> <<>>])
    IN [fs1 EXCEPT ![DepthIndex(fs1, depth)].names = Incr(@, name)]

RECURSIVE InsertDesc(_, _, _)
InsertDesc(sorted, e, i) ==
    IF i > Len(sorted) THEN Append(sorted, e)
    ELSE IF sorted[i].count < e.count
         THEN SubSeq(sorted, 1, i - 1) \o <<e>> \o SubSeq(sorted, i, Len(sorted))
         ELSE InsertDesc(sorted, e, i + 1)

RECURSIVE SortDesc(_, _, _)
\* sorted(d.items(), key=count, reverse=True): stable, ties keep their order
SortDesc(d, i, acc) ==
    IF i > Len(d) THEN acc ELSE SortDesc(d, i + 1, InsertDesc(acc, d[i], 1))

TopExtensions == 10
Take(sq, n) == SubSeq(sq, 1, IF Len(sq) < n THEN Len(sq) ELSE n)

(***************************************************************************)
(* crawl_file_system                                                       *)
(***************************************************************************)
HasDigit(s) == \E i \in 1..Len(s) : IsDigit(CharAt(s, i))
HasUpper(s) == \E i \in 1..Len(s) : IsUpper(CharAt(s, i))

\* the naming signals of one file name (lines 269-280)
NamingSignals(file_name) ==
    LET name_without_ext == Stem(file_name) IN
    IF name_without_ext = "" THEN <<>>
    ELSE (IF HasDigit(name_without_ext) THEN <<"contains_numbers">> ELSE <<>>)
         \o (IF Contains("_", name_without_ext) THEN <<"uses_underscores">> ELSE <<>>)
         \o (IF Contains("-", name_without_ext) THEN <<"uses_hyphens">> ELSE <<>>)
         \o (IF HasUpper(name_without_ext) THEN <<"uses_capitals">> ELSE <<>>)

RECURSIVE CrawlDirs(_, _, _, _)
\* lines 242-253: the directories listed in a root at depth >= 2
CrawlDirs(acc, depth, dirs, i) ==
    IF i > Len(dirs) THEN acc
    ELSE CrawlDirs([acc EXCEPT !.dir_count = @ + 1,
                               !.folders = FolderIncr(@, depth, dirs[i])],
                   depth, dirs, i + 1)

\* the cap test with the comparison off by one
FileCapReached_Late(file_count, max_files) == file_count > max_files

\* line 257: the cap test of the file loop
FileCapReached(file_count, max_files) == file_count >= max_files

RECURSIVE CrawlFiles(_, _, _, _)
\* lines 256-280: the files of one root
CrawlFiles(acc, files, max_files, i) ==
    IF i > Len(files) THEN acc
    ELSE IF FileCapReached(acc.file_count, max_files) THEN acc
    ELSE CrawlFiles([acc EXCEPT !.file_count = @ + 1,
                                !.common_extensions = Incr(@, Lower(Suffix(files[i]))),
                                !.naming_patterns = @ \o NamingSignals(files[i])],
                    files, max_files, i + 1)

\* the depth test letting the walk record the children of depth-1 roots
RecordsDirs_FromDepth1(depth) == depth >= 1

\* line 240: which roots of the walk record their directories
RecordsDirs(depth) == depth >= 2

RECURSIVE CrawlWalk(_, _, _, _, _, _)
\* lines 213-280: the loop over os.walk
CrawlWalk(acc, walk, base_path, max_depth, max_files, i) ==
    IF i > Len(walk) THEN acc
    ELSE IF acc.file_count >= max_files THEN acc
    ELSE LET depth == Len(walk[i].root) - Len(base_path) IN
         IF depth > max_depth
         THEN CrawlWalk(acc, walk, base_path, max_depth, max_files, i + 1)
         ELSE LET a1 == [acc EXCEPT !.crawl_depth = IF depth > @ THEN depth ELSE @]
                  a2 == IF RecordsDirs(depth) THEN CrawlDirs(a1, depth, walk[i].dirs, 1)
                        ELSE a1
                  a3 == CrawlFiles(a2, walk[i].files, max_files, 1)
              IN CrawlWalk(a3, walk, base_path, max_depth, max_files, i + 1)

RECURSIVE Depth1(_, _, _)
\* lines 198-209: the direct children of the base directory
Depth1(acc, base_contents, i) ==
    IF i > Len(base_contents) THEN acc
    ELSE Depth1(IF base_contents[i].kind = "dir"
                THEN [acc EXCEPT !.dir_count = @ + 1,
                                 !.folders[2].names = SetOne(@, Last(base_contents[i].path))]
                ELSE acc,
                base_contents, i + 1)

RECURSIVE ListOfSet(_, _, _)
\* list(set(xs)): the distinct elements, in the order the set iterates
ListOfSet(xs, order, i) ==
    IF i > Len(order) THEN <<>>
    ELSE (IF order[i] \in Range(xs) THEN <<order[i]>> ELSE <<>>)
         \o ListOfSet(xs, order, i + 1)

RECURSIVE DepthAnalysis(_, _)
DepthAnalysis(folders, i) ==
    IF i > Len(folders) THEN <<>>
    ELSE <<[depth |-> folders[i].depth,
            total_folders |-> Len(folders[i].names),
            most_common |-> Take(SortDesc(folders[i].names, 1, <<>>), 5)]>>
         \o DepthAnalysis(folders, i + 1)

Returned(v) == [raised |-> FALSE, value |-> v]
Raised(e) == [raised |-> TRUE, value |-> [exception |-> e]]

\* lines 154-301: the body of the outer try
crawl_body(f, base_path, max_depth, max_files, order) ==
    IF ~Exists(f, base_path)
    THEN Returned([error |-> "Base directory does not exist"])
    ELSE IF IsDir(f, base_path) /\ ~Listable(f, base_path)
    THEN \* iterdir() raises PermissionError (lines 187-190)
         Returned([error |-> "Permission denied"])
    ELSE IF ~IsDir(f, base_path)
    THEN \* iterdir() raises NotADirectoryError, handled at lines 191-193;
         \* base_contents is then unbound at line 200
         Raised("UnboundLocalError")
    ELSE LET base_contents == Children(f, base_path)
             acc0 == [file_count |-> 0, dir_count |-> 0, crawl_depth |-> 0,
                      folders |-> <<[depth |-> 0, names |-> <<[key |-> "base", count |-> 1]>>],
                                    [depth |-> 1, names |-> <<>>]>>,
                      common_extensions |-> <<>>,
                      naming_patterns |-> <<>>]
             acc1 == Depth1(acc0, base_contents, 1)
             acc2 == CrawlWalk(acc1, os_walk(f, base_path), base_path,
                               max_depth, max_files, 1)
         IN Returned([base_directory |-> base_path,
                      folders |-> acc2.folders,
                      file_patterns |-> <<>>,
                      common_extensions |->
                          Take(SortDesc(acc2.common_extensions, 1, <<>>), TopExtensions),
                      naming_patterns |-> ListOfSet(acc2.naming_patterns, order, 1),
                      depth_analysis |-> DepthAnalysis(acc2.folders, 1),
                      debug_info |-> [total_dirs_found |-> acc2.dir_count,
                                      total_files_found |-> acc2.file_count,
                                      crawl_depth |-> acc2.crawl_depth,
                                      base_folders |->
                                          NamesOfKind(base_contents, TRUE, 1)]])

\* lines 303-305: the outer handler turns every exception into an error value
CrawlHandler(outcome) ==
    IF outcome.raised THEN Returned([error |-> "Error crawling file system"])
    ELSE outcome

crawl_file_system(f, base_directory, max_depth, max_files, order) ==
    CrawlHandler(crawl_body(f, base_directory, max_depth, max_files, order))

IsError(structure) == "error" \in DOMAIN structure

(***************************************************************************)
(* suggest_filing_location.  A document is [intent, category, summary,     *)
(* key_entities, file_type, filename], absent keys holding the default the *)
(* code's .get() supplies; an entity is [isstr, val].  Scores are doubled. *)
(***************************************************************************)
ClockYear == 2026
FirstYear == 2020
Threshold2 == 10

FinancialTypes == {"invoice", "receipt", "payment", "bill"}
FinancialWords == {"financial", "finance", "money", "billing", "invoice",
                   "receipt", "payment", "expense", "accounting"}
LegalTypes == {"contract", "agreement", "legal"}
LegalWords == {"legal", "contract", "agreement", "law", "compliance", "terms"}
ReportTypes == {"report", "analysis", "study"}
ReportWords == {"report", "analysis", "study", "research", "data", "analytics"}
PolicyTypes == {"policy", "handbook", "procedure"}
\* the intents that get a year segment, without the reports
YearTypes_NoReport == {"invoice", "receipt", "contract"}

\* line 477
YearTypes == {"invoice", "receipt", "contract", "report"}

NoMatchFlag == "No matching existing folders found"

\* existing_structure.get(key, {})
GetFolders(existing_structure) ==
    IF "folders" \in DOMAIN existing_structure THEN existing_structure.folders ELSE <<>>
GetExtensions(existing_structure) ==
    IF "common_extensions" \in DOMAIN existing_structure
    THEN existing_structure.common_extensions ELSE <<>>

RECURSIVE SummaryWords(_, _)
\* line 380: [w for w in words if len(w) > 3 and w.isalpha()]
SummaryWords(words, i) ==
    IF i > Len(words) THEN <<>>
    ELSE (IF Len(words[i]) > 3 /\ IsAlpha(words[i]) THEN <<words[i]>> ELSE <<>>)
         \o SummaryWords(words, i + 1)

RECURSIVE EntityWords(_, _)
\* line 382: [str(e).lower() for e in entities if isinstance(e, str)]
EntityWords(entities, i) ==
    IF i > Len(entities) THEN <<>>
    ELSE (IF entities[i].isstr THEN <<Lower(entities[i].val)>> ELSE <<>>)
         \o EntityWords(entities, i + 1)

\* lines 372-382
DocKeywords(structured_data) ==
    LET doc_type == Lower(structured_data.intent)
        doc_category == Lower(structured_data.category)
        summary == Lower(structured_data.summary)
    IN (IF doc_type # "" THEN <<doc_type>> ELSE <<>>)
       \o (IF doc_category # "" THEN <<doc_category>> ELSE <<>>)
       \o (IF summary # "" THEN SummaryWords(Split(summary), 1) ELSE <<>>)
       \o EntityWords(structured_data.key_entities, 1)

AnyWordIn(words, folder_lower) == \E w \in words : Contains(w, folder_lower)

RECURSIVE KeywordScore(_, _, _, _)
\* lines 398-401
KeywordScore(sc, doc_keywords, folder_name, i) ==
    IF i > Len(doc_keywords) THEN sc
    ELSE KeywordScore(
            IF Contains(doc_keywords[i], Lower(folder_name))
            THEN [score |-> sc.score + 10,
                  evidence |-> Append(sc.evidence,
                      "Keyword '" \o doc_keywords[i] \o "' found in existing folder '"
                      \o folder_name \o "'")]
            ELSE sc,
            doc_keywords, folder_name, i + 1)

\* lines 404-417
SemanticScore(sc, doc_type, folder_name, types, words, label) ==
    IF doc_type \in types /\ AnyWordIn(words, Lower(folder_name))
    THEN [score |-> sc.score + 16,
          evidence |-> Append(sc.evidence,
              label \o " document matches existing folder '" \o folder_name \o "'")]
    ELSE sc

EntityMatches(entity, folder_lower) ==
    LET entity_lower == Lower(entity) IN
    \/ Contains(entity_lower, folder_lower)
    \/ \E w \in Range(Split(entity_lower)) : Contains(w, folder_lower)

RECURSIVE EntityScore(_, _, _, _)
\* lines 420-426
EntityScore(sc, entities, folder_name, i) ==
    IF i > Len(entities) THEN sc
    ELSE EntityScore(
            IF entities[i].isstr /\ EntityMatches(entities[i].val, Lower(folder_name))
            THEN [score |-> sc.score + 12,
                  evidence |-> Append(sc.evidence,
                      "Entity '" \o entities[i].val \o "' matches existing folder '"
                      \o folder_name \o "'")]
            ELSE sc,
            entities, folder_name, i + 1)

Min(a, b) == IF a < b THEN a ELSE b

\* lines 436-440
ExtensionScore(sc, structured_data, common_extensions) ==
    LET doc_ext == Lower(structured_data.file_type) IN
    IF common_extensions # <<>> /\ HasKey(common_extensions, doc_ext)
    THEN [score |-> sc.score + 6,
          evidence |-> Append(sc.evidence,
              "Existing folder contains similar file types (" \o doc_ext \o ")")]
    ELSE sc

\* lines 393-440: twice the score of one folder, and its evidence
FolderScore(structured_data, common_extensions, depth, folder_name, folder_count) ==
    LET doc_type == Lower(structured_data.intent)
        s0 == [score |-> 0, evidence |-> <<>>]
        s1 == KeywordScore(s0, DocKeywords(structured_data), folder_name, 1)
        s2 == SemanticScore(s1, doc_type, folder_name, FinancialTypes, FinancialWords,
                            "Financial")
        s3 == SemanticScore(s2, doc_type, folder_name, LegalTypes, LegalWords, "Legal")
        s4 == SemanticScore(s3, doc_type, folder_name, ReportTypes, ReportWords, "Report")
        s5 == EntityScore(s4, structured_data.key_entities, folder_name, 1)
        s6 == [s5 EXCEPT !.score = @ + 2 * Min(folder_count, 5) - depth]
    IN ExtensionScore(s6, structured_data, common_extensions)

\* the replacement test with ">=" for ">"
Better_OrEqual(score, best_score) == score >= best_score

\* line 442: when a folder replaces the best one so far
Better(score, best_score) == score > best_score

RECURSIVE ScoreNames(_, _, _, _, _, _)
ScoreNames(best, structured_data, common_extensions, depth, names, i) ==
    IF i > Len(names) THEN best
    ELSE LET sc == FolderScore(structured_data, common_extensions, depth,
                               names[i].key, names[i].count)
         IN ScoreNames(IF Better(sc.score, best.best_score)
                       THEN [best_score |-> sc.score,
                             best_folder_path |-> names[i].key,
                             best_evidence |-> sc.evidence,
                             is_new_folder |-> FALSE]
                       ELSE best,
                       structured_data, common_extensions, depth, names, i + 1)

RECURSIVE ScoreFolders(_, _, _, _, _)
\* lines 385-446: the loop over every depth and every folder name
ScoreFolders(best, structured_data, common_extensions, all_folders, i) ==
    IF i > Len(all_folders) THEN best
    ELSE ScoreFolders(ScoreNames(best, structured_data, common_extensions,
                                 all_folders[i].depth, all_folders[i].names, 1),
                      structured_data, common_extensions, all_folders, i + 1)

\* the threshold test with "<=" for "<"
TooLow_Inclusive(best_score) == best_score =< Threshold2

\* line 449: when a new folder name is synthesized
TooLow(best_score) == best_score < Threshold2

\* a folder name built from three keywords
NameKeywords_Three == 2 + 1

\* line 467: doc_keywords[:2]
NameKeywords == 2

\* lines 451-471: the synthesized folder and its evidence
NewFolder(structured_data) ==
    LET doc_type == Lower(structured_data.intent)
        doc_keywords == DocKeywords(structured_data)
    IN IF doc_type \in FinancialTypes
       THEN [path |-> "Financial_Documents",
             evidence |-> <<"Creating new Financial Documents folder for financial documents">>]
       ELSE IF doc_type \in LegalTypes
       THEN [path |-> "Legal_Documents",
             evidence |-> <<"Creating new Legal Documents folder for legal documents">>]
       ELSE IF doc_type \in ReportTypes
       THEN [path |-> "Reports_and_Analysis",
             evidence |-> <<"Creating new Reports and Analysis folder for reports">>]
       ELSE IF doc_type \in PolicyTypes
       THEN [path |-> "Policies_and_Procedures",
             evidence |-> <<"Creating new Policies and Procedures folder for policy documents">>]
       ELSE IF doc_keywords # <<>>
       THEN LET folder_name ==
                    Join("_", [j \in 1..Min(Len(doc_keywords), NameKeywords) |->
                                  Title(doc_keywords[j])])
            IN [path |-> folder_name \o "_Documents",
                evidence |-> <<"Creating new folder based on document keywords: "
                               \o folder_name>>]
       ELSE [path |-> "Other_Documents",
             evidence |-> <<"Creating new general documents folder">>]

\* line 483: some existing folder name carries a year
YearFolderExists(all_folders, year) ==
    \E i \in DOMAIN all_folders : \E j \in DOMAIN all_folders[i].names :
        LET folder == all_folders[i].names[j].key IN
        \/ Contains(ToString(year), folder)
        \/ \E y \in FirstYear..year : Contains(ToString(y), folder)

\* lines 477-493: the year segment
AddYear(res, structured_data, all_folders, year) ==
    IF Lower(structured_data.intent) \in YearTypes
    THEN LET current_year == ToString(year) IN
         IF YearFolderExists(all_folders, year)
         THEN [res EXCEPT !.suggested_path = @ \o "/" \o current_year,
                          !.evidence = Append(@, "Added year folder '" \o current_year
                                                 \o "' based on existing pattern")]
         ELSE [suggested_path |-> res.suggested_path \o "/" \o current_year,
               evidence |-> Append(res.evidence, "Creating new year folder '"
                                   \o current_year \o "' for organization"),
               is_new_folder |-> TRUE]
    ELSE res

\* lines 357-495; year is datetime.now().year
suggest_filing_location(structured_data, existing_structure, year) ==
    LET all_folders == GetFolders(existing_structure)
        common_extensions == GetExtensions(existing_structure)
        best == ScoreFolders([best_score |-> 0, best_folder_path |-> "",
                              best_evidence |-> <<>>, is_new_folder |-> TRUE],
                             structured_data, common_extensions, all_folders, 1)
        chosen == IF TooLow(best.best_score)
                  THEN [suggested_path |-> NewFolder(structured_data).path,
                        evidence |-> <<NoMatchFlag>> \o NewFolder(structured_data).evidence,
                        is_new_folder |-> TRUE]
                  ELSE [suggested_path |-> best.best_folder_path,
                        evidence |-> best.best_evidence,
                        is_new_folder |-> best.is_new_folder]
    IN AddYear(chosen, structured_data, all_folders, year)

(***************************************************************************)
(* save_file.  The clock counts the seconds after <ClockYear>-11-04        *)
(* 12:00:00; fault is what the operating system does to this call: "none", *)
(* "write" (the write fails after the file was opened) or "stat" (the      *)
(* read-back of the file information fails).                               *)
(***************************************************************************)
Faults == {"none", "write", "stat"}

TwoDigits(n) == IF n < 10 THEN "0" \o ToString(n) ELSE ToString(n)
\* datetime.now().strftime("%Y%m%d")
DateStamp(now) == ToString(ClockYear) \o "1104"
\* datetime.now().strftime("%Y%m%d_%H%M%S")
TimeStamp(now) == DateStamp(now) \o "_1200" \o TwoDigits(now)

RECURSIVE PartsFrom(_, _, _, _)
PartsFrom(s, i, cur, acc) ==
    LET flush == IF cur = "" \/ cur = "." THEN acc ELSE Append(acc, cur) IN
    IF i > Len(s) THEN flush
    ELSE IF CharAt(s, i) = "/" THEN PartsFrom(s, i + 1, "", flush)
    ELSE PartsFrom(s, i + 1, cur \o CharAt(s, i), acc)

\* PurePath(s).parts without the root: empty and "." components are dropped
Parts(s) == PartsFrom(s, 1, "", <<>>)
IsAbsolute(s) == StartsWith(s, "/")
\* dest_path / filename: an absolute right operand replaces the left one
JoinPath(dest_path, filename) ==
    IF IsAbsolute(filename) THEN Parts(filename) ELSE dest_path \o Parts(filename)
\* PurePath.name
NameOf(p) == IF p = <<>> THEN "" ELSE Last(p)

RECURSIVE ExistingAncestor(_, _)
ExistingAncestor(f, p) ==
    IF p = <<>> \/ HasNode(f, p) THEN p ELSE ExistingAncestor(f, Parent(p))

RECURSIVE MissingDirs(_, _, _)
MissingDirs(f, p, i) ==
    IF i > Len(p) THEN <<>>
    ELSE (IF HasNode(f, SubSeq(p, 1, i)) THEN <<>>
          ELSE <<[path |-> SubSeq(p, 1, i), kind |-> "dir", data |-> "", mode |-> "rw"]>>)
         \o MissingDirs(f, p, i + 1)

\* Path.mkdir(parents=True, exist_ok=True) on a missing directory
Mkdir(f, p) ==
    LET anc == ExistingAncestor(f, p) IN
    IF ~IsDir(f, anc) THEN [fs |-> f, exc |-> "NotADirectoryError"]
    ELSE IF ~Writable(f, anc) THEN [fs |-> f, exc |-> "PermissionError"]
    ELSE [fs |-> f \o MissingDirs(f, p, 1), exc |-> ""]

\* open(p, 'xb'): the write that fails when the file is there
WriteFile_Exclusive(f, p, data, fault) ==
    LET rp == Real(p) IN
    IF rp = <<>> \/ ~Walkable(f, p, 1) \/ ~IsDir(f, Parent(rp))
    THEN [fs |-> f, exc |-> "FileNotFoundError"]
    ELSE IF HasNode(f, rp) THEN [fs |-> f, exc |-> "FileExistsError"]
    ELSE IF ~Writable(f, Parent(rp)) THEN [fs |-> f, exc |-> "PermissionError"]
    ELSE [fs |-> Append(f, [path |-> rp, kind |-> "file",
                            data |-> IF fault = "write" THEN "" ELSE data,
                            mode |-> "rw"]),
          exc |-> IF fault = "write" THEN "OSError" ELSE ""]

\* open(p, 'wb') followed by write(data)
WriteFile(f, p, data, fault) ==
    LET rp == Real(p) IN
    IF rp = <<>> \/ ~Walkable(f, p, 1) \/ ~IsDir(f, Parent(rp))
    THEN [fs |-> f, exc |-> "FileNotFoundError"]
    ELSE IF HasNode(f, rp)
    THEN IF NodeOf(f, rp).kind = "dir" THEN [fs |-> f, exc |-> "IsADirectoryError"]
         ELSE IF NodeOf(f, rp).mode # "rw" THEN [fs |-> f, exc |-> "PermissionError"]
         ELSE LET i == CHOOSE i \in DOMAIN f : f[i].path = rp IN
              IF fault = "write"
              THEN [fs |-> [f EXCEPT ![i].data = ""], exc |-> "OSError"]
              ELSE [fs |-> [f EXCEPT ![i].data = data], exc |-> ""]
    ELSE IF ~Writable(f, Parent(rp)) THEN [fs |-> f, exc |-> "PermissionError"]
    ELSE IF fault = "write"
    THEN [fs |-> Append(f, [path |-> rp, kind |-> "file", data |-> "", mode |-> "rw"]),
          exc |-> "OSError"]
    ELSE [fs |-> Append(f, [path |-> rp, kind |-> "file", data |-> data, mode |-> "rw"]),
          exc |-> ""]

\* the write target without the collision check
TargetPath_NoRename(f, dest_path, filename, now) == JoinPath(dest_path, filename)

\* lines 574-585: the write target
TargetPath(f, dest_path, filename, now) ==
    LET file_path == JoinPath(dest_path, filename) IN
    IF Exists(f, file_path)
    THEN LET name_part == Stem(NameOf(file_path))
             ext_part == Suffix(NameOf(file_path))
             new_filename == name_part \o "_" \o TimeStamp(now) \o ext_part
         IN JoinPath(dest_path, new_filename)
    ELSE file_path

\* the refusal reported as a failure of the write
NotWritableResult_Generic == Returned([success |-> FALSE, error |-> "Failed to write file"])

\* lines 565-568: the result for a directory that is there and not writable
NotWritableResult ==
    Returned([success |-> FALSE, error |-> "Permission denied: Directory is not writable"])

\* lines 588-613: the write to the chosen file path and the result
write_result(f, file_content, filename, file_path, now, fault) ==
    LET w == WriteFile(f, file_path, file_content, fault)
    IN IF w.exc = "PermissionError"
       THEN [fs |-> w.fs,
             outcome |-> Returned([success |-> FALSE,
                                   error |-> "Permission denied: Cannot write"])]
       ELSE IF w.exc # ""
       THEN [fs |-> w.fs,
             outcome |-> Returned([success |-> FALSE, error |-> "Failed to write file"])]
       ELSE IF fault = "stat"
       THEN [fs |-> w.fs, outcome |-> Raised("OSError")]
       ELSE [fs |-> w.fs,
             outcome |-> Returned([success |-> TRUE,
                                   path |-> file_path,
                                   size |-> Len(file_content),
                                   modified |-> now,
                                   renamed |-> NameOf(file_path) # filename])]

\* lines 570-613: from the file path to the result
save_write(f, file_content, filename, dest_path, now, fault) ==
    write_result(f, file_content, filename, TargetPath(f, dest_path, filename, now),
                 now, fault)

\* lines 547-585: the directory checks and the existence check of one call,
\* up to the choice of the file path
save_check(f, filename, destination_path, now) ==
    LET dest_path == Real(destination_path) IN
    IF ~Exists(f, dest_path)
    THEN LET m == Mkdir(f, dest_path) IN
         IF m.exc = "PermissionError"
         THEN [fs |-> f, failed |-> TRUE,
               outcome |-> Returned([success |-> FALSE,
                                     error |-> "Permission denied: Cannot create directory"])]
         ELSE IF m.exc # ""
         THEN [fs |-> f, failed |-> TRUE,
               outcome |-> Returned([success |-> FALSE,
                                     error |-> "Failed to create directory"])]
         ELSE [fs |-> m.fs, failed |-> FALSE,
               file_path |-> TargetPath(m.fs, dest_path, filename, now)]
    ELSE IF ~Writable(f, dest_path)
    THEN [fs |-> f, failed |-> TRUE, outcome |-> NotWritableResult]
    ELSE [fs |-> f, failed |-> FALSE,
          file_path |-> TargetPath(f, dest_path, filename, now)]

\* lines 547-613: the body of the outer try
save_body(f, file_content, filename, destination_path, now, fault) ==
    LET dest_path == Real(destination_path) IN
    IF ~Exists(f, dest_path)
    THEN LET m == Mkdir(f, dest_path) IN
         IF m.exc = "PermissionError"
         THEN [fs |-> f,
               outcome |-> Returned([success |-> FALSE,
                                     error |-> "Permission denied: Cannot create directory"])]
         ELSE IF m.exc # ""
         THEN [fs |-> f,
               outcome |-> Returned([success |-> FALSE,
                                     error |-> "Failed to create directory"])]
         ELSE save_write(m.fs, file_content, filename, dest_path, now, fault)
    ELSE IF ~Writable(f, dest_path)
    THEN [fs |-> f, outcome |-> NotWritableResult]
    ELSE save_write(f, file_content, filename, dest_path, now, fault)

\* save_file without its outer handler
SaveHandler_Absent(outcome) == outcome

\* lines 615-620: the outer handler turns every exception into a failure value
SaveHandler(outcome) ==
    IF outcome.raised THEN Returned([success |-> FALSE, error |-> outcome.value.exception])
    ELSE outcome

save_file(f, file_content, filename, destination_path, now, fault) ==
    LET b == save_body(f, file_content, filename, destination_path, now, fault)
    IN [fs |-> b.fs, outcome |-> SaveHandler(b.outcome)]

(***************************************************************************)
(* request_save_file and perform_save_operation.  The session state is     *)
(* [file_operations, doc_state]; None is the record NoneValue.  A request  *)
(* holds result = [filename, file_content, structured_data] (filename may  *)
(* be absent), filing_data (suggested_path may be absent), base_directory, *)
(* rename_file and custom_filename.                                        *)
(***************************************************************************)
NoneValue == [none |-> TRUE]
\* a caller that holds no argument objects
NoObjects == [bound |-> FALSE]
IsNone(v) == v = NoneValue

\* lines 120-127: the folder path, or None when the directory cannot be made
create_folder_structure(f, base_path, folder_path) ==
    LET full_path == JoinPath(base_path, folder_path) IN
    IF IsDir(f, full_path) THEN [fs |-> f, failed |-> FALSE, path |-> full_path]
    ELSE LET m == Mkdir(f, Real(full_path)) IN
         IF m.exc # "" THEN [fs |-> f, failed |-> TRUE]
         ELSE [fs |-> m.fs, failed |-> FALSE, path |-> full_path]

\* lines 896-907
request_save_file(session, doc_index, params) ==
    [session EXCEPT !.file_operations.save_requested = TRUE,
                    !.file_operations.save_file_index = doc_index,
                    !.file_operations.save_params = params]

\* lines 982-984: the document state after the save_file call; '' is <<>>
SavedState(doc_state, save_result) ==
    [doc_state EXCEPT !.save_attempted = TRUE,
                      !.save_success = TRUE,
                      !.saved_path = IF "path" \in DOMAIN save_result
                                     THEN save_result.path ELSE <<>>]

\* lines 944-954: the filename to save under
SaveFilename(result, rename_file, custom_filename) ==
    LET filename == IF rename_file /\ custom_filename # "" THEN custom_filename
                    ELSE result.filename
        original_ext == Suffix(NameOf(Parts(result.filename)))
    IN IF Suffix(NameOf(Parts(filename))) = "" /\ original_ext # ""
       THEN filename \o original_ext
       ELSE filename

\* lines 944-952: result['filename'] is read and the result has none
FilenameMissing(result, rename_file, custom_filename) ==
    /\ "filename" \notin DOMAIN result
    /\ \/ ~(rename_file /\ custom_filename # "")
       \/ Suffix(NameOf(Parts(custom_filename))) = ""

\* lines 968-984: the session after the save_file call
save_recorded(session, doc_index, result, save_result) ==
    [session EXCEPT
        !.file_operations.last_save_result =
            [success |-> save_result.success,
             path |-> IF "path" \in DOMAIN save_result THEN save_result.path ELSE <<>>,
             size |-> IF "size" \in DOMAIN save_result THEN save_result.size ELSE 0,
             renamed |-> IF "renamed" \in DOMAIN save_result
                         THEN save_result.renamed ELSE FALSE,
             type |-> IF "file_type" \in DOMAIN result.structured_data
                      THEN result.structured_data.file_type ELSE "Unknown",
             error |-> IF "error" \in DOMAIN save_result THEN save_result.error ELSE ""],
        !.doc_state[doc_index] = SavedState(@, save_result)]

\* lines 988-997, 1001-1004: a failure stored as the last save result
SaveFailure(session, text) ==
    [session EXCEPT !.file_operations.last_save_result =
        [success |-> FALSE, error |-> text]]

\* lines 957-985: the save_file call and what is stored of it
save_and_record(session, doc_index, result, saved) ==
    [fs |-> saved.fs, raised |-> FALSE, save_calls |-> 1,
     session |-> save_recorded(session, doc_index, result, saved.outcome.value)]

\* lines 942-997: the try after create_folder_structure returned folder
perform_in_folder(folder, session, doc_index, params, now, fault) ==
    IF folder.failed
    THEN [fs |-> folder.fs, raised |-> FALSE, save_calls |-> 0,
          session |-> SaveFailure(session, "Failed to create folder structure")]
    ELSE IF FilenameMissing(params.result, params.rename_file, params.custom_filename)
    THEN [fs |-> folder.fs, raised |-> TRUE, save_calls |-> 0, session |-> session]
    ELSE IF params.result.file_content = ""
    THEN [fs |-> folder.fs, raised |-> FALSE, save_calls |-> 0,
          session |-> SaveFailure(session, "Original file content not available")]
    ELSE save_and_record(session, doc_index, params.result,
             save_file(folder.fs, params.result.file_content,
                       SaveFilename(params.result, params.rename_file,
                                    params.custom_filename),
                       folder.path, now, fault))

\* lines 936-997: the body of the try
perform_body(f, session, doc_index, params, now, fault) ==
    perform_in_folder(
        create_folder_structure(f, params.base_directory,
            IF "suggested_path" \in DOMAIN params.filing_data
            THEN params.filing_data.suggested_path ELSE "Documents"),
        session, doc_index, params, now, fault)

\* the end of the operation with the request flag left as it is
perform_end_FlagKept(b) ==
    [fs |-> b.fs, save_calls |-> b.save_calls,
     session |-> IF b.raised THEN SaveFailure(b.session, "KeyError") ELSE b.session]

\* lines 999-1007: the handler of the try and the reset of the request flag
perform_end(b) ==
    [fs |-> b.fs, save_calls |-> b.save_calls,
     session |-> [(IF b.raised THEN SaveFailure(b.session, "KeyError") ELSE b.session)
                     EXCEPT !.file_operations.save_requested = FALSE]]

\* lines 909-1008
perform_save_operation(f, session, now, fault) ==
    IF ~session.file_operations.save_requested
    THEN [fs |-> f, session |-> session, save_calls |-> 0]
    ELSE IF IsNone(session.file_operations.save_params)
    THEN [fs |-> f, save_calls |-> 0,
          session |-> [session EXCEPT !.file_operations.save_requested = FALSE]]
    ELSE perform_end(perform_body(f, session, session.file_operations.save_file_index,
                                  session.file_operations.save_params, now, fault))

(***************************************************************************)
(* analyze_existing_structure, generate_filename and                       *)
(* analyze_document_for_filing                                             *)
(***************************************************************************)
RECURSIVE FolderHierarchy(_, _)
RECURSIVE KeysWhere(_, _, _)
\* the keys whose count exceeds least, in dictionary order
KeysWhere(d, least, i) ==
    IF i > Len(d) THEN <<>>
    ELSE (IF d[i].count > least THEN <<d[i].key>> ELSE <<>>) \o KeysWhere(d, least, i + 1)

\* lines 325-330
FolderHierarchy(folders, i) ==
    IF i > Len(folders) THEN <<>>
    ELSE <<[depth |-> folders[i].depth,
            all_folders |-> KeysWhere(folders[i].names, 0, 1),
            common_folders |-> KeysWhere(folders[i].names, 1, 1),
            total_unique |-> Len(folders[i].names)]>>
         \o FolderHierarchy(folders, i + 1)

RECURSIVE PatternCounts(_, _, _)
\* lines 333-335
PatternCounts(patterns, i, acc) ==
    IF i > Len(patterns) THEN acc
    ELSE PatternCounts(patterns, i + 1, Incr(acc, patterns[i]))

\* lines 315-355: the insights derived from a crawled structure
Insights(structure) ==
    [base_directory |-> structure.base_directory,
     folder_hierarchy |-> FolderHierarchy(structure.folders, 1),
     naming_conventions |->
         KeysWhere(SortDesc(PatternCounts(structure.naming_patterns, 1, <<>>), 1, <<>>), 0, 1),
     file_types |-> KeysWhere(structure.common_extensions, 1, 1),
     suggestions |->
         (IF FoldersAt(structure.folders, 1) # <<>>
          THEN <<"Top-level folders: "
                 \o Join(", ", Take(KeysWhere(FoldersAt(structure.folders, 1), 0, 1), 5))>>
          ELSE <<>>)
         \o (IF structure.naming_patterns # <<>>
             THEN <<"Naming patterns: " \o Join(", ", Take(structure.naming_patterns, 3))>>
             ELSE <<>>),
     debug_info |-> structure.debug_info]

\* lines 307-355
analyze_existing_structure(f, base_directory, order) ==
    LET structure == crawl_file_system(f, base_directory, 3, 100, order).value IN
    IF IsError(structure) THEN structure ELSE Insights(structure)

OrgWords == {"corp", "inc", "ltd", "company", "llc"}

RECURSIVE CleanFrom(_, _, _)
\* line 519: keep letters, digits, blank, hyphen, underscore
CleanFrom(s, i, acc) ==
    IF i > Len(s) THEN acc
    ELSE LET c == CharAt(s, i) IN
         CleanFrom(s, i + 1, IF IsAlnum(c) \/ c \in {" ", "-", "_"} THEN acc \o c ELSE acc)

RECURSIVE Strip(_)
\* str.strip() for blanks
Strip(s) ==
    IF s = "" THEN s
    ELSE IF CharAt(s, 1) = " " THEN Strip(SubSeq(s, 2, Len(s)))
    ELSE IF CharAt(s, Len(s)) = " " THEN Strip(SubSeq(s, 1, Len(s) - 1))
    ELSE s

RECURSIVE ReplaceBlank(_, _, _)
\* str.replace(' ', '_')
ReplaceBlank(s, i, acc) ==
    IF i > Len(s) THEN acc
    ELSE ReplaceBlank(s, i + 1, acc \o (IF CharAt(s, i) = " " THEN "_" ELSE CharAt(s, i)))

RECURSIVE EntityPart(_, _)
\* lines 516-521: the first entity that looks like an organisation
EntityPart(entities, i) ==
    IF i > Len(entities) THEN <<>>
    ELSE IF entities[i].isstr /\ AnyWordIn(OrgWords, Lower(entities[i].val))
         THEN <<ReplaceBlank(Strip(CleanFrom(entities[i].val, 1, "")), 1, "")>>
         ELSE EntityPart(entities, i + 1)

\* the joiner of the convention that is listed first
Separator_FirstListed(naming_conventions) ==
    LET listed == SelectSeq(naming_conventions,
                            LAMBDA c : c \in {"uses_underscores", "uses_hyphens"})
    IN IF listed # <<>> /\ listed[1] = "uses_hyphens" THEN "-" ELSE "_"

\* lines 527-532: the joiner of the filename parts
Separator(naming_conventions) ==
    IF "uses_underscores" \in Range(naming_conventions) THEN "_"
    ELSE IF "uses_hyphens" \in Range(naming_conventions) THEN "-"
    ELSE "_"

\* the filename returned as it was built
ReturnedName_AsBuilt(filename) == filename

\* line 542: return filename.lower()
ReturnedName(filename) == Lower(filename)

\* lines 497-542
generate_filename(structured_data, existing_structure, now) ==
    LET doc_type == Lower(structured_data.intent)
        original_name == structured_data.filename
        naming_conventions == IF "naming_conventions" \in DOMAIN existing_structure
                              THEN existing_structure.naming_conventions ELSE <<>>
        filename_parts == (IF doc_type # "" THEN <<doc_type>> ELSE <<>>)
                          \o EntityPart(structured_data.key_entities, 1)
                          \o <<DateStamp(now)>>
        sep == Separator(naming_conventions)
        original_ext == Suffix(NameOf(Parts(original_name)))
    IN ReturnedName(Join(sep, filename_parts)
                    \o (IF original_ext # "" THEN original_ext ELSE ".pdf"))

Providers == {"OpenAI", "Anthropic", "Mistral"}

\* the error result without the cause of the crawl failure
AnalysisError_Generic(existing_structure) ==
    [error |-> "Failed to analyze existing structure"]

\* lines 1045-1046: the error result keeps the crawl's message
AnalysisError(existing_structure) ==
    [error |-> "Failed to analyze existing structure: " \o existing_structure.error]

\* lines 1031-1057: up to the suggestion handed to the provider; the
\* provider's answer is not modelled
analyze_document_for_filing(f, provider, structured_data, base_directory, now, order) ==
    IF provider \notin Providers THEN [error |-> "Unsupported provider"]
    ELSE LET existing_structure == analyze_existing_structure(f, base_directory, order) IN
         IF IsError(existing_structure)
         THEN AnalysisError(existing_structure)
         ELSE LET sug == suggest_filing_location(structured_data, existing_structure,
                                                 ClockYear)
                  suggested_filename ==
                      generate_filename(structured_data, existing_structure, now)
              IN [suggested_path |-> sug.suggested_path,
                  suggested_filename |-> suggested_filename,
                  is_new_folder |-> sug.is_new_folder,
                  best_evidence |->
                      (IF sug.is_new_folder
                       THEN <<"This will create new folders in your file system">>
                       ELSE <<>>) \o sug.evidence,
                  provider |-> provider]

(***************************************************************************)
(* suggest_filing_location and generate_filename on objects.  objs[r] is   *)
(* the content of the object with reference r; a name of the code holds a  *)
(* reference, an assignment of one name to another makes an alias, and     *)
(* append, extend and insert change the object a name refers to.  The      *)
(* arguments are the document mapping with its key_entities list and the   *)
(* profile mapping with its folders, common_extensions and                 *)
(* naming_conventions; a key the profile lacks refers to NoRef, its slot   *)
(* is empty, and .get() supplies an empty default.                         *)
(***************************************************************************)
NoRef == 0
SdRef == 1
EntitiesRef == 2
EsRef == 3
FoldersRef == 4
ExtensionsRef == 5
ConventionsRef == 6

\* the objects a caller passes for a document and a profile
ArgumentObjects(structured_data, existing_structure) ==
    << [structured_data EXCEPT !.key_entities = EntitiesRef],
       structured_data.key_entities,
       [folders |-> IF "folders" \in DOMAIN existing_structure
                    THEN FoldersRef ELSE NoRef,
        common_extensions |-> IF "common_extensions" \in DOMAIN existing_structure
                              THEN ExtensionsRef ELSE NoRef,
        naming_conventions |-> IF "naming_conventions" \in DOMAIN existing_structure
                               THEN ConventionsRef ELSE NoRef],
       GetFolders(existing_structure),
       GetExtensions(existing_structure),
       IF "naming_conventions" \in DOMAIN existing_structure
       THEN existing_structure.naming_conventions ELSE <<>> >>

\* structured_data.get(...) on the objects: the document as the code reads it
StructuredData(objs) == [objs[SdRef] EXCEPT !.key_entities = objs[objs[SdRef].key_entities]]
\* existing_structure.get(key, default) on the objects
GetObject(objs, r) == IF r = NoRef THEN <<>> ELSE objs[r]

\* a list display: a new object
Alloc(objs, content) == Append(objs, content)
NewRef(objs) == Len(objs) + 1
\* list.append, list.extend, list.insert(0, v)
ListAppend(objs, r, v) == [objs EXCEPT ![r] = Append(@, v)]
ListExtend(objs, r, vs) == [objs EXCEPT ![r] = @ \o vs]
ListInsertFirst(objs, r, v) == [objs EXCEPT ![r] = <<v>> \o @]

RECURSIVE FlatFolders(_, _)
\* lines 391-392: the (depth, folder_name, folder_count) of the two loops
FlatFolders(all_folders, i) ==
    IF i > Len(all_folders) THEN <<>>
    ELSE [j \in 1..Len(all_folders[i].names) |->
             [depth |-> all_folders[i].depth, key |-> all_folders[i].names[j].key,
              count |-> all_folders[i].names[j].count]]
         \o FlatFolders(all_folders, i + 1)

\* lines 372-382: doc_keywords = [] and the appends to it
KeywordList(objs, structured_data) ==
    ListExtend(Alloc(objs, <<>>), NewRef(objs), DocKeywords(structured_data))

\* line 387: best_evidence = []
FirstEvidence(objs) == [objs |-> Alloc(objs, <<>>), ref |-> NewRef(objs)]

\* line 395: evidence = []
FolderEvidence(objs) == [objs |-> Alloc(objs, <<>>), ref |-> NewRef(objs)]

RECURSIVE ObjScore(_, _, _, _, _)
\* lines 391-446: evidence = [] for every folder, the appends to it, and
\* best_evidence = evidence when the folder is better
ObjScore(st, structured_data, common_extensions, flat, i) ==
    IF i > Len(flat) THEN st
    ELSE LET sc == FolderScore(structured_data, common_extensions, flat[i].depth,
                               flat[i].key, flat[i].count)
             evidence == FolderEvidence(st.objs).ref
             objs == ListExtend(FolderEvidence(st.objs).objs, evidence, sc.evidence)
         IN ObjScore(IF Better(sc.score, st.best_score)
                     THEN [objs |-> objs, best_score |-> sc.score,
                           best_folder_path |-> flat[i].key,
                           best_evidence |-> evidence, is_new_folder |-> FALSE]
                     ELSE [st EXCEPT !.objs = objs],
                     structured_data, common_extensions, flat, i + 1)

\* lines 449-474: best_evidence = [...] for a new folder, then insert(0, flag)
ObjNewFolder(st, structured_data) ==
    IF TooLow(st.best_score)
    THEN LET made == NewFolder(structured_data)
             best_evidence == NewRef(st.objs)
         IN [objs |-> ListInsertFirst(Alloc(st.objs, made.evidence), best_evidence,
                                      NoMatchFlag),
             best_score |-> st.best_score, best_folder_path |-> made.path,
             best_evidence |-> best_evidence, is_new_folder |-> TRUE]
    ELSE st

\* lines 477-493: the year segment and best_evidence.append
ObjAddYear(st, structured_data, all_folders, year) ==
    LET res == AddYear([suggested_path |-> st.best_folder_path, evidence |-> <<>>,
                        is_new_folder |-> st.is_new_folder],
                       structured_data, all_folders, year)
    IN [objs |-> ListExtend(st.objs, st.best_evidence, res.evidence),
        best_folder_path |-> res.suggested_path, best_evidence |-> st.best_evidence,
        is_new_folder |-> res.is_new_folder]

\* lines 357-495 on the objects: the objects after the call and what it returns
obj_suggest_filing_location(objs, year) ==
    LET structured_data == StructuredData(objs)
        all_folders == GetObject(objs, objs[EsRef].folders)
        common_extensions == GetObject(objs, objs[EsRef].common_extensions)
        first == FirstEvidence(KeywordList(objs, structured_data))
        scored == ObjScore([objs |-> first.objs, best_score |-> 0,
                            best_folder_path |-> "", best_evidence |-> first.ref,
                            is_new_folder |-> TRUE],
                           structured_data, common_extensions,
                           FlatFolders(all_folders, 1), 1)
        st == ObjAddYear(ObjNewFolder(scored, structured_data), structured_data,
                         all_folders, year)
    IN [objs |-> SubSeq(st.objs, 1, Len(objs)),
        result |-> [suggested_path |-> st.best_folder_path,
                    evidence |-> st.objs[st.best_evidence],
                    is_new_folder |-> st.is_new_folder]]

\* the filename parts collected in the profile's naming_conventions list
FilenameParts_Shared(objs) ==
    IF objs[EsRef].naming_conventions = NoRef
    THEN [objs |-> Alloc(objs, <<>>), ref |-> NewRef(objs)]
    ELSE [objs |-> objs, ref |-> objs[EsRef].naming_conventions]

\* line 509: filename_parts = []
FilenameParts(objs) == [objs |-> Alloc(objs, <<>>), ref |-> NewRef(objs)]

\* lines 497-542 on the objects: filename_parts = [] and the appends to it
obj_generate_filename(objs, now) ==
    LET structured_data == StructuredData(objs)
        naming_conventions == GetObject(objs, objs[EsRef].naming_conventions)
        doc_type == Lower(structured_data.intent)
        filename_parts == FilenameParts(objs).ref
        parts == ListAppend(
                     ListExtend(
                         ListExtend(FilenameParts(objs).objs, filename_parts,
                                    IF doc_type # "" THEN <<doc_type>> ELSE <<>>),
                         filename_parts, EntityPart(structured_data.key_entities, 1)),
                     filename_parts, DateStamp(now))
        original_ext == Suffix(NameOf(Parts(structured_data.filename)))
    IN [objs |-> SubSeq(parts, 1, Len(objs)),
        result |-> ReturnedName(Join(Separator(naming_conventions), parts[filename_parts])
                                \o (IF original_ext # "" THEN original_ext ELSE ".pdf"))]

(***************************************************************************)
(* The inputs of the model: one directory tree, the base directories and   *)
(* destinations tried on it, and the documents.                            *)
(***************************************************************************)
Dir(p) == [path |-> p, kind |-> "dir", data |-> "", mode |-> "rw"]
DirMode(p, m) == [path |-> p, kind |-> "dir", data |-> "", mode |-> m]
File(p, d) == [path |-> p, kind |-> "file", data |-> d, mode |-> "rw"]

InitialTree ==
    << Dir(<<"home">>),
       Dir(<<"home", "Financial_Documents">>),
       File(<<"home", "Financial_Documents", "a.pdf">>, "a"),
       File(<<"home", "Financial_Documents", "b.pdf">>, "b"),
       File(<<"home", "Financial_Documents", "Scan-3.PDF">>, "c"),
       Dir(<<"home", "Invoices_2021">>),
       Dir(<<"home", "Other_Documents">>),
       Dir(<<"home", "A">>),
       Dir(<<"home", "A", "B">>),
       Dir(<<"home", "A", "B", "memos">>),
       Dir(<<"home", "A", "B", "C">>),
       Dir(<<"home", "A", "B", "C", "notes">>),
       File(<<"home", "A", "B", "C", "plan_v2.txt">>, "p"),
       Dir(<<"home", "docs">>),
       File(<<"home", "docs", "x.pdf">>, "OLD"),
       File(<<"home", "docs", "readme">>, "r"),
       Dir(<<"home", "docs", "sub">>),
       DirMode(<<"home", "ro">>, "r"),
       File(<<"home", "ro", "x.pdf">>, "RO"),
       File(<<"home", "notes.txt">>, "n"),
       Dir(<<"work">>),
       Dir(<<"work", "Financial_Documents">>),
       File(<<"work", "Financial_Documents", "q1.pdf">>, "1"),
       File(<<"work", "Financial_Documents", "q2.pdf">>, "2"),
       File(<<"work", "Financial_Documents", "q3.pdf">>, "3"),
       Dir(<<"work", "Other_Documents">>),
       Dir(<<"work", "Archive">>),
       Dir(<<"work", "Archive", "old">>),
       Dir(<<"work", "Archive", "old", "memos">>),
       Dir(<<"work", "Archive", "old", "deep">>),
       Dir(<<"work", "Archive", "old", "deep", "notes">>),
       DirMode(<<"vault">>, "none"),
       DirMode(<<"srv">>, "r") >>

BaseDirectories ==
    { <<"home">>, <<"work">>, <<"home", "docs">>, <<"work", "Financial_Documents">>,
      <<"home", "Financial_Documents">>,
      <<"home", "Other_Documents">>, <<"home", "A">>, <<"home", "notes.txt">>, <<"vault">>, <<"missing">> }

MaxDepthChoices == {0, 1, MaxDepthArg}
MaxFilesChoices == (0..MaxFilesArg) \cup {100}

\* the orders in which a set of naming signals may iterate
SetOrders ==
    { <<"contains_numbers", "uses_underscores", "uses_hyphens", "uses_capitals">>,
      <<"uses_capitals", "uses_hyphens", "uses_underscores", "contains_numbers">> }

Text(v) == [isstr |-> TRUE, val |-> v]
NonText(v) == [isstr |-> FALSE, val |-> v]
Doc(intent, category, summary, key_entities, file_type, filename) ==
    [intent |-> intent, category |-> category, summary |-> summary,
     key_entities |-> key_entities, file_type |-> file_type, filename |-> filename]

Documents ==
    { Doc("invoice", "", "", <<Text("Acme Corp")>>, "pdf", "scan.pdf"),
      Doc("Invoice", "finance", "", <<>>, ".pdf", "Scan 01.PDF"),
      Doc("", "", "", <<>>, "", "document"),
      Doc("../x", "", "", <<>>, "", "document"),
      Doc("/etc", "", "", <<>>, "", "document"),
      Doc("", "", "", <<NonText("42"), Text("../../etc")>>, "", "document"),
      Doc("memo", "", "", <<>>, "", "memo.txt"),
      Doc("note", "", "", <<>>, "", "note.txt"),
      Doc("base", "", "", <<>>, "", "document"),
      Doc("report", "", "Annual sales data for 2024", <<>>, "", "report.docx"),
      Doc("contract", "legal", "", <<Text("Beta LLC")>>, "", "c.pdf"),
      Doc("letter", "", "a short travel note", <<>>, "txt", "letter"),
      Doc("scan", "documents", "", <<>>, "pdf", "scan.pdf"),
      Doc("Policy", "", "", <<>>, "", "policy.docx"),
      Doc("other", "", "", <<>>, "", "document") }

ProviderChoices == {"OpenAI", "Llama"}

Destinations ==
    { <<"home", "docs">>, <<"home", "new", "sub">>, <<"home", "ro">>,
      <<"srv", "d">>, <<"home", "notes.txt", "d">>, <<"home", "docs", "..", "docs">> }

\* (file_content, filename, destination_path, fault)
SaveInputs ==
    ({"NEW", "B"} \X {"x.pdf"} \X {<<"home", "docs">>} \X {"none"})
    \cup ({"NEW"} \X {"y.pdf", "../x.pdf", "/home/abs.pdf", "sub/x.pdf",
                      "../docs/x.pdf", "/home/docs/x.pdf", ""}
                 \X {<<"home", "docs">>} \X {"none"})
    \cup ({"NEW"} \X {"x.pdf", "y.pdf"} \X {<<"home", "docs">>} \X {"write", "stat"})
    \cup ({"NEW"} \X {"x.pdf"} \X (Destinations \ {<<"home", "docs">>}) \X {"none"})

\* the documents shown in the session
DocIndexes == {0, 1}

SaveResult(filename, file_content) ==
    [filename |-> filename, file_content |-> file_content,
     structured_data |-> [file_type |-> "pdf"]]
SaveParams(result, filing_data, base_directory, rename_file, custom_filename) ==
    [result |-> result, filing_data |-> filing_data, base_directory |-> base_directory,
     rename_file |-> rename_file, custom_filename |-> custom_filename]

\* the save requests the user interface may make
SaveRequests ==
    { SaveParams(SaveResult("x.pdf", "NEW"), [suggested_path |-> "docs"],
                 <<"home">>, FALSE, ""),
      SaveParams(SaveResult("x.pdf", "NEW"), [suggested_path |-> "ro"],
                 <<"home">>, FALSE, ""),
      SaveParams(SaveResult("scan.pdf", "B"), [suggested_path |-> "new/2026"],
                 <<"home">>, TRUE, "invoice_acme"),
      SaveParams(SaveResult("x.pdf", ""), [suggested_path |-> "docs"],
                 <<"home">>, FALSE, ""),
      SaveParams(SaveResult("x.pdf", "NEW"), [suggested_path |-> "d"],
                 <<"srv">>, FALSE, ""),
      SaveParams(SaveResult("x.pdf", "NEW"), [confidence |-> "high"],
                 <<"home">>, TRUE, ""),
      SaveParams([file_content |-> "NEW", structured_data |-> [intent |-> "memo"]],
                 [suggested_path |-> "docs"], <<"home">>, FALSE, "") }

\* the callers that may be inside save_file at the same time
Callers == {1, 2}

\* (file_content, filename, destination_path) of the calls that may overlap
RaceInputs ==
    {"NEW", "B"} \X {"x.pdf", "n.pdf"} \X {<<"home", "docs">>, <<"home", "new", "sub">>,
                                           <<"home", "ro">>}

(***************************************************************************)
(* The state: the file system, the clock, the number of save_file calls    *)
(* made, the last operation with its arguments and its result, and for     *)
(* every caller the save_file call it is inside, the session state of the  *)
(* user interface, the number of request_save_file calls made, the        *)
(* documents requested that no perform_save_operation has handled yet,    *)
(* and the argument objects a caller holds for suggest_filing_location    *)
(* and generate_filename.                                                 *)
(***************************************************************************)
VARIABLES fs, now, saves, last, calls, session, requests, unperformed, held

vars == <<fs, now, saves, last, calls, session, requests, unperformed, held>>

Init ==
    /\ fs = InitialTree
    /\ now = 0
    /\ saves = 0
    /\ last = [op |-> "none"]
    /\ calls = [c \in Callers |-> [pc |-> "idle"]]
    /\ session = [file_operations |->
                      [save_requested |-> FALSE, save_file_index |-> NoneValue,
                       save_params |-> NoneValue, last_save_result |-> NoneValue],
                  doc_state |->
                      [d \in DocIndexes |->
                          [save_attempted |-> FALSE, save_success |-> FALSE,
                           saved_path |-> NoneValue]]]
    /\ requests = 0
    /\ unperformed = {}
    /\ held = NoObjects

\* a call is made when the result of the previous one has been dropped
Idle == last.op = "none"

Crawl(base_directory, max_depth, max_files, order) ==
    /\ Idle
    /\ last' = [op |-> "crawl", base |-> base_directory,
                max_depth |-> max_depth, max_files |-> max_files,
                outcome |-> crawl_file_system(fs, base_directory, max_depth,
                                              max_files, order)]
    /\ UNCHANGED <<fs, now, saves, calls, session, requests, unperformed, held>>

\* suggest_filing_location on the profile the last crawl returned
Suggest(structured_data) ==
    /\ last.op = "crawl"
    /\ ~last.outcome.raised
    /\ ~IsError(last.outcome.value)
    /\ last' = [op |-> "suggest", base |-> last.base, doc |-> structured_data,
                max_depth |-> last.max_depth, max_files |-> last.max_files,
                structure |-> last.outcome.value,
                result |-> suggest_filing_location(structured_data, last.outcome.value,
                                                   ClockYear)]
    /\ UNCHANGED <<fs, now, saves, calls, session, requests, unperformed, held>>

Analyze(provider, structured_data, base_directory, order) ==
    /\ Idle
    /\ last' = [op |-> "analyze", base |-> base_directory, doc |-> structured_data,
                provider |-> provider,
                result |-> analyze_document_for_filing(fs, provider, structured_data,
                                                       base_directory, now, order)]
    /\ UNCHANGED <<fs, now, saves, calls, session, requests, unperformed, held>>

Save(file_content, filename, destination_path, fault) ==
    /\ Idle
    /\ saves < MaxSaves
    /\ LET r == save_file(fs, file_content, filename, destination_path, now, fault) IN
       /\ fs' = r.fs
       /\ last' = [op |-> "save", content |-> file_content, filename |-> filename,
                   dest |-> destination_path, fault |-> fault, pre |-> fs, at |-> now,
                   outcome |-> r.outcome]
    /\ saves' = saves + 1
    /\ UNCHANGED <<now, calls, session, requests, unperformed, held>>

Tick ==
    /\ now < MaxClock
    /\ now' = now + 1
    /\ UNCHANGED <<fs, saves, last, calls, session, requests, unperformed, held>>

\* the caller drops the result of the last operation
Forget ==
    /\ ~Idle
    /\ last' = [op |-> "none"]
    /\ UNCHANGED <<fs, now, saves, calls, session, requests, unperformed, held>>

\* a caller enters save_file and runs it up to the existence check of the
\* file path (lines 547-585)
SaveBegin(c, file_content, filename, destination_path) ==
    /\ Idle
    /\ calls[c].pc = "idle"
    /\ saves < MaxSaves
    /\ LET r == save_check(fs, filename, destination_path, now)
           call == [content |-> file_content, filename |-> filename,
                    dest |-> destination_path]
       IN /\ fs' = r.fs
          /\ calls' = [calls EXCEPT ![c] =
                IF r.failed
                THEN call @@ [pc |-> "done", outcome |-> SaveHandler(r.outcome)]
                ELSE call @@ [pc |-> "write", file_path |-> r.file_path]]
    /\ saves' = saves + 1
    /\ UNCHANGED <<now, last, session, requests, unperformed, held>>

\* the caller writes the file and returns (lines 588-613); replaced tells
\* that the open truncated a file that was there
SaveFinish(c) ==
    /\ calls[c].pc = "write"
    /\ LET r == write_result(fs, calls[c].content, calls[c].filename, calls[c].file_path,
                             now, "none")
       IN /\ fs' = r.fs
          /\ calls' = [calls EXCEPT ![c] =
                [pc |-> "done", content |-> calls[c].content,
                 filename |-> calls[c].filename, dest |-> calls[c].dest,
                 file_path |-> calls[c].file_path,
                 replaced |-> HasNode(fs, Real(calls[c].file_path)),
                 outcome |-> SaveHandler(r.outcome)]]
    /\ UNCHANGED <<now, saves, last, session, requests, unperformed, held>>

\* the caller has the result and may call again
SaveReturn(c) ==
    /\ calls[c].pc = "done"
    /\ calls' = [calls EXCEPT ![c] = [pc |-> "idle"]]
    /\ UNCHANGED <<fs, now, saves, last, session, requests, unperformed, held>>

\* the Save button of document doc_index (app.py line 536)
RequestSave(doc_index, params) ==
    /\ requests < MaxRequests
    /\ session' = request_save_file(session, doc_index, params)
    /\ requests' = requests + 1
    /\ last' = [op |-> "request", doc_index |-> doc_index, params |-> params,
                pre |-> session]
    /\ unperformed' = unperformed \cup {doc_index}
    /\ UNCHANGED <<fs, now, saves, calls, held>>

\* one call of perform_save_operation (app.py lines 86 and 89)
PerformSave ==
    /\ \E r \in {perform_save_operation(fs, session, now, "none")} :
       /\ fs' = r.fs
       /\ session' = r.session
       /\ saves' = saves + r.save_calls
       /\ last' = [op |-> "perform", pre |-> session, fs_before |-> fs,
                   save_calls |-> r.save_calls]
    /\ unperformed' = IF session.file_operations.save_requested
                      THEN unperformed \ {session.file_operations.save_file_index}
                      ELSE unperformed
    /\ UNCHANGED <<now, calls, requests, held>>

\* the page shows the result of the last save and clears it (app.py lines 93-102)
ShowSaveResult ==
    /\ ~IsNone(session.file_operations.last_save_result)
    /\ session' = [session EXCEPT !.file_operations.last_save_result = NoneValue]
    /\ last' = [op |-> "show"]
    /\ UNCHANGED <<fs, now, saves, calls, requests, unperformed, held>>

\* a caller makes the document mapping and the profile of a crawl
HoldArguments(structured_data, base_directory, order, analyzed) ==
    /\ ~held.bound
    /\ LET structure == IF analyzed
                        THEN analyze_existing_structure(fs, base_directory, order)
                        ELSE crawl_file_system(fs, base_directory, 3, 100, order).value
       IN
       /\ ~IsError(structure)
       /\ held' = [bound |-> TRUE, made |-> 0,
                   objs |-> ArgumentObjects(structured_data, structure),
                   first |-> [suggest |-> NoneValue, generate |-> NoneValue]]
    /\ last' = [op |-> "hold"]
    /\ UNCHANGED <<fs, now, saves, calls, session, requests, unperformed>>

\* suggest_filing_location(structured_data, base_directory, existing_structure)
\* on the objects held
CallSuggest ==
    /\ held.bound
    /\ held.made < MaxCalls
    /\ LET r == obj_suggest_filing_location(held.objs, ClockYear) IN
       /\ held' = [held EXCEPT !.objs = r.objs, !.made = @ + 1,
                               !.first.suggest = IF IsNone(@) THEN [value |-> r.result]
                                                 ELSE @]
       /\ last' = [op |-> "call", fn |-> "suggest", before |-> held.objs,
                   earlier |-> held.made, result |-> r.result]
    /\ UNCHANGED <<fs, now, saves, calls, session, requests, unperformed>>

\* generate_filename(structured_data, existing_structure) on the objects held
CallGenerate ==
    /\ held.bound
    /\ held.made < MaxCalls
    /\ LET r == obj_generate_filename(held.objs, now) IN
       /\ held' = [held EXCEPT !.objs = r.objs, !.made = @ + 1,
                               !.first.generate = IF IsNone(@) THEN [value |-> r.result]
                                                  ELSE @]
       /\ last' = [op |-> "call", fn |-> "generate", before |-> held.objs,
                   earlier |-> held.made, result |-> r.result]
    /\ UNCHANGED <<fs, now, saves, calls, session, requests, unperformed>>

\* the caller drops the objects
Release ==
    /\ held.bound
    /\ held' = NoObjects
    /\ last' = [op |-> "none"]
    /\ UNCHANGED <<fs, now, saves, calls, session, requests, unperformed>>

NextFiling ==
    \/ \E b \in BaseDirectories, d \in MaxDepthChoices, m \in MaxFilesChoices,
          o \in SetOrders : Crawl(b, d, m, o)
    \/ \E doc \in Documents : Suggest(doc)
    \/ \E p \in ProviderChoices, doc \in Documents, b \in BaseDirectories,
          o \in SetOrders : Analyze(p, doc, b, o)
    \/ Forget

\* crawls with the default limits and saves, with the faults of the file system
NextFaults ==
    \/ \E b \in BaseDirectories, o \in SetOrders : Crawl(b, 3, 100, o)
    \/ \E i \in SaveInputs : Save(i[1], i[2], i[3], i[4])
    \/ Tick
    \/ Forget

NextSave ==
    \/ \E i \in SaveInputs : Save(i[1], i[2], i[3], i[4])
    \/ Tick
    \/ Forget

\* calls of suggest_filing_location and generate_filename, in any order, on
\* the same argument objects
NextObjects ==
    \/ \E doc \in Documents, b \in BaseDirectories, o \in SetOrders,
          analyzed \in BOOLEAN : HoldArguments(doc, b, o, analyzed)
    \/ CallSuggest
    \/ CallGenerate
    \/ Release

\* the save requests of the user interface and the reruns that perform them
NextSession ==
    \/ \E d \in DocIndexes, p \in SaveRequests : RequestSave(d, p)
    \/ PerformSave
    \/ ShowSaveResult
    \/ Tick

\* save_file calls of several callers, interleaved between the existence
\* check and the write
NextRace ==
    \/ \E c \in Callers, i \in RaceInputs : SaveBegin(c, i[1], i[2], i[3])
    \/ \E c \in Callers : SaveFinish(c)
    \/ \E c \in Callers : SaveReturn(c)
    \/ Tick

Next == NextFiling \/ NextSave \/ NextRace \/ NextSession \/ NextObjects

SpecFiling == Init /\ [][NextFiling]_vars
SpecFaults == Init /\ [][NextFaults]_vars
SpecSave == Init /\ [][NextSave]_vars
SpecRace == Init /\ [][NextRace]_vars
SpecSession == Init /\ [][NextSession]_vars
SpecObjects == Init /\ [][NextObjects]_vars
Spec == Init /\ [][Next]_vars

(***************************************************************************)
(* Properties                                                              *)
(***************************************************************************)
SaveDone == last.op = "save"
SaveSucceeded == SaveDone /\ ~last.outcome.raised /\ last.outcome.value.success
\* the path the filename argument of the last save names in the destination
RequestedPath == Real(JoinPath(Real(last.dest), last.filename))
\* before the last save, a file stood at the requested path
Collision ==
    /\ SaveDone
    /\ Exists(last.pre, JoinPath(Real(last.dest), last.filename))
    /\ HasNode(last.pre, RequestedPath)
    /\ NodeOf(last.pre, RequestedPath).kind = "file"

\* C1: when save_file is called with a filename that names an existing file
\* of the destination directory, that file holds the same bytes after the
\* call; if the directory is writable and the operating system fails
\* neither the write nor the read-back, the call returns success with
\* renamed = True and a path whose name differs from the filename and which
\* is not the existing file.
C1_CollisionSafety ==
    Collision =>
        /\ HasNode(fs, RequestedPath)
        /\ NodeOf(fs, RequestedPath) = NodeOf(last.pre, RequestedPath)
        /\ (Writable(last.pre, Real(last.dest)) /\ last.fault = "none") => SaveSucceeded
        /\ SaveSucceeded =>
              /\ last.outcome.value.renamed
              /\ NameOf(last.outcome.value.path) # last.filename
              /\ Real(last.outcome.value.path) # RequestedPath

C1_Witness ==
    /\ Collision
    /\ SaveSucceeded
    /\ last.filename = "x.pdf"
    /\ last.outcome.value.renamed
    /\ NodeOf(fs, Real(last.outcome.value.path)).data = last.content
    /\ NodeOf(fs, RequestedPath).data = "OLD"

\* C3: whenever save_file returns success, the returned path is a direct
\* child of the resolved destination directory.
C3_PathIsChildOfDestination ==
    SaveSucceeded =>
        /\ Real(last.outcome.value.path) # <<>>
        /\ Parent(Real(last.outcome.value.path)) = Real(last.dest)

SuggestDone == last.op = "suggest"
Segments(path) == SplitFrom(path, "/", 1, "", <<>>)

\* C2: the path returned by suggest_filing_location never starts with "/"
\* and has no ".." segment.
C2_PathSafety ==
    SuggestDone =>
        /\ ~StartsWith(last.result.suggested_path, "/")
        /\ ".." \notin Range(Segments(last.result.suggested_path))

\* the folders of a profile as [depth, name, count]
FolderEntries(structure) ==
    UNION { { [depth |-> structure.folders[i].depth,
               name |-> structure.folders[i].names[j].key,
               count |-> structure.folders[i].names[j].count] :
                 j \in DOMAIN structure.folders[i].names } :
            i \in DOMAIN structure.folders }
\* twice the score of a folder entry for a document
ScoreOf(structured_data, structure, e) ==
    FolderScore(structured_data, structure.common_extensions, e.depth, e.name,
                e.count).score
\* no folder of the profile scores higher than s
IsTopScore(structured_data, structure, s) ==
    /\ \E e \in FolderEntries(structure) : ScoreOf(structured_data, structure, e) = s
    /\ \A e \in FolderEntries(structure) : ScoreOf(structured_data, structure, e) =< s
Synthesized(result) == NoMatchFlag \in Range(result.evidence)
\* the path is the folder name, possibly followed by the year segment
SelectsFolder(result, name) ==
    \/ result.suggested_path = name
    \/ result.suggested_path = name \o "/" \o ToString(ClockYear)

\* C4: when the highest folder score is exactly 5, the highest-scoring
\* existing folder is returned and no name is synthesized; a name is
\* synthesized only when the highest score is below 5 or there is no folder.
C4_ThresholdBoundary ==
    SuggestDone =>
        /\ IsTopScore(last.doc, last.structure, Threshold2) =>
              /\ ~Synthesized(last.result)
              /\ \E e \in FolderEntries(last.structure) :
                    /\ ScoreOf(last.doc, last.structure, e) = Threshold2
                    /\ SelectsFolder(last.result, e.name)
        /\ Synthesized(last.result) =>
              \A e \in FolderEntries(last.structure) :
                  ScoreOf(last.doc, last.structure, e) < Threshold2

C4_Witness ==
    /\ SuggestDone
    /\ IsTopScore(last.doc, last.structure, Threshold2)
    /\ last.result.suggested_path = "memos"
    /\ ~last.result.is_new_folder

\* the suggested path, taken from the base directory
SuggestedDirectory == last.base \o Segments(last.result.suggested_path)

\* C5: is_new_folder is false exactly when the whole suggested path,
\* year segment included, names a directory that exists under the base
\* directory.
C5_NewFolderFlagMatchesFileSystem ==
    SuggestDone => (~last.result.is_new_folder <=> IsDir(fs, SuggestedDirectory))

\* the base directory of the last operation has no subfolder
NoSubfolders == NamesOfKind(Children(fs, last.base), TRUE, 1) = <<>>

\* C6: on the profile of a base directory without subfolders,
\* suggest_filing_location returns is_new_folder = True and a synthesized
\* folder name for every document.
C6_EmptyTreeSynthesizes ==
    (SuggestDone /\ NoSubfolders) =>
        /\ last.result.is_new_folder
        /\ Synthesized(last.result)

AnalyzeDone == last.op = "analyze" /\ ~IsError(last.result)
\* what the crawl of the base directory of the last operation finds
CrawledNow ==
    crawl_file_system(fs, last.base, 3, 100, CHOOSE o \in SetOrders : TRUE).value

\* C7: when a folder of the base directory scores at least 5 for the
\* document, analyze_document_for_filing recommends the folder the scoring
\* of the crawled folders selects, without the 'no matching existing
\* folders found' evidence.
C7_AnalyzeSelectsExistingFolder ==
    (AnalyzeDone /\ \E e \in FolderEntries(CrawledNow) :
                        /\ e.depth >= 1
                        /\ ScoreOf(last.doc, CrawledNow, e) >= Threshold2) =>
        /\ NoMatchFlag \notin Range(last.result.best_evidence)
        /\ last.result.suggested_path =
              suggest_filing_location(last.doc, CrawledNow, ClockYear).suggested_path

CrawlDone == last.op = "crawl" /\ ~last.outcome.raised /\ ~IsError(last.outcome.value)
Subfolders == NamesOfKind(Children(fs, last.base), TRUE, 1)

\* C8: the profile has at depth 1 exactly the immediate subfolders of the
\* base directory, each with count 1, for every max_depth and max_files.
C8_DepthOneComplete ==
    CrawlDone =>
        LET level1 == FoldersAt(last.outcome.value.folders, 1) IN
        /\ {level1[i].key : i \in DOMAIN level1} = Range(Subfolders)
        /\ Len(level1) = Len(Subfolders)
        /\ \A i \in DOMAIN level1 : level1[i].count = 1

C8_Witness ==
    /\ CrawlDone
    /\ last.base = <<"home">>
    /\ last.max_depth = 3
    /\ last.max_files = 100
    /\ Len(FoldersAt(last.outcome.value.folders, 1)) = 6
    /\ FoldersAt(last.outcome.value.folders, 2) # <<>>

\* the number of files below the base directory of the last operation
FilesBelow ==
    Cardinality({ i \in DOMAIN fs :
                    /\ fs[i].kind = "file"
                    /\ Len(fs[i].path) > Len(last.base)
                    /\ SubSeq(fs[i].path, 1, Len(last.base)) = last.base })

\* C9: the counts of the extension histogram sum to at most max_files, and
\* at most max_files files are examined.
C9_MaxFilesCap ==
    CrawlDone =>
        /\ SumCounts(last.outcome.value.common_extensions, 1) =< last.max_files
        /\ last.outcome.value.debug_info.total_files_found =< last.max_files

C9_Witness ==
    /\ CrawlDone
    /\ last.max_files > 0
    /\ FilesBelow > last.max_files
    /\ SumCounts(last.outcome.value.common_extensions, 1) = last.max_files

\* C10: crawl_file_system and save_file never raise; a base directory that
\* is missing, cannot be listed or is no directory gives an error value, and
\* a save whose directory cannot be created, whose write fails or whose
\* read-back fails gives success = False with an error.
C10_FailuresAreValues ==
    /\ last.op = "crawl" =>
          /\ ~last.outcome.raised
          /\ ~Listable(fs, last.base) => IsError(last.outcome.value)
    /\ SaveDone =>
          /\ ~last.outcome.raised
          /\ (\/ last.fault # "none"
              \/ ~IsDir(fs, Real(last.dest))
              \/ ~Writable(last.pre, ExistingAncestor(last.pre, Real(last.dest))))
                => ~last.outcome.value.success
          /\ ~last.outcome.value.success => "error" \in DOMAIN last.outcome.value

C10_Witness ==
    /\ SaveDone
    /\ last.fault = "stat"
    /\ ~last.outcome.raised
    /\ ~last.outcome.value.success
    /\ last.outcome.value.error = "OSError"

\* the last operation is a call of analyze_document_for_filing, with a
\* supported provider, on a base directory whose crawl fails
AnalyzeOnFailedCrawl ==
    /\ last.op = "analyze"
    /\ last.provider \in Providers
    /\ ~Listable(fs, last.base)
AnalyzeErrorPrefix == "Failed to analyze existing structure: "

\* C11: if the crawl of the base directory fails, analyze_document_for_filing
\* returns an error result and nothing else - no suggested path (no folder
\* was scored), no filename (none was composed) and no provider (none was
\* called); the error of a missing base directory names the missing
\* directory and the error of a base directory that may not be listed names
\* the denied permission.
C11_CrawlFailureShortCircuits ==
    AnalyzeOnFailedCrawl =>
        /\ DOMAIN last.result = {"error"}
        /\ ~Exists(fs, last.base) =>
              last.result.error = AnalyzeErrorPrefix \o "Base directory does not exist"
        /\ (IsDir(fs, last.base) /\ ModeOf(fs, last.base) = "none") =>
              last.result.error = AnalyzeErrorPrefix \o "Permission denied"

C11_Witness ==
    /\ AnalyzeOnFailedCrawl
    /\ last.base = <<"vault">>
    /\ last.result = [error |-> AnalyzeErrorPrefix \o "Permission denied"]

\* C12: on the same directory tree, for the same document and at the same
\* clock date, a second run of the crawl, the analysis, the folder
\* suggestion and the filename composition returns the same path, evidence,
\* is_new_folder and filename as the first, in whatever order the set of
\* naming signals is listed.
C12_OrderIndependent ==
    /\ SuggestDone =>
          \A o \in SetOrders :
              LET again == crawl_file_system(fs, last.base, last.max_depth,
                                             last.max_files, o).value
              IN /\ suggest_filing_location(last.doc, again, ClockYear) = last.result
                 /\ generate_filename(last.doc, Insights(again), now)
                       = generate_filename(last.doc, Insights(last.structure), now)
    /\ last.op = "analyze" =>
          \A o \in SetOrders :
              analyze_document_for_filing(fs, last.provider, last.doc, last.base, now, o)
                  = last.result

C12_Witness ==
    /\ AnalyzeDone
    /\ last.base = <<"home">>
    /\ last.result.suggested_filename = "invoice_acme_corp_20261104.pdf"
    /\ \E o1, o2 \in SetOrders :
          LET first == analyze_existing_structure(fs, last.base, o1).naming_conventions
              second == analyze_existing_structure(fs, last.base, o2).naming_conventions
          IN /\ first # second
             /\ {"uses_underscores", "uses_hyphens"} \subseteq Range(first)
             /\ analyze_document_for_filing(fs, last.provider, last.doc, last.base, now, o1)
                  = analyze_document_for_filing(fs, last.provider, last.doc, last.base,
                                                now, o2)

\* C13: for every document whose intent is invoice, receipt, contract or
\* report, suggest_filing_location returns is_new_folder = True, whether an
\* existing folder was selected or not and whether some folder name carries
\* a year or not.
C13_YearSegmentMarksNewFolder ==
    (SuggestDone /\ Lower(last.doc.intent) \in {"invoice", "receipt", "contract", "report"})
        => last.result.is_new_folder

\* the extension a file_type names, written as the histogram writes it
DocExtension(structured_data) ==
    LET file_type == Lower(structured_data.file_type) IN
    IF file_type = "" \/ StartsWith(file_type, ".") THEN file_type ELSE "." \o file_type
\* twice what the file-type test adds to the score of a folder entry
ExtensionBonus(structured_data, structure, e) ==
    ScoreOf(structured_data, structure, e)
        - FolderScore(structured_data, <<>>, e.depth, e.name, e.count).score

\* C14: when the histogram of the crawled tree has the extension the
\* document's file_type names (".pdf" for "pdf"), the score of every folder
\* includes the +3 file-type bonus; when it has not, no score includes it.
C14_ExtensionBonusByFileType ==
    SuggestDone =>
        \A e \in FolderEntries(last.structure) :
            ExtensionBonus(last.doc, last.structure, e) =
                IF HasKey(last.structure.common_extensions, DocExtension(last.doc))
                THEN 6 ELSE 0

CallDone(c) == calls[c].pc = "done"
CallSucceeded(c) ==
    CallDone(c) /\ ~calls[c].outcome.raised /\ calls[c].outcome.value.success
\* two finished calls for the same filename and the same destination whose
\* existence checks both found no file, so that both kept the file path
RacingPair(c1, c2) ==
    /\ c1 # c2
    /\ CallDone(c1) /\ CallDone(c2)
    /\ calls[c1].filename = calls[c2].filename
    /\ calls[c1].dest = calls[c2].dest
    /\ "file_path" \in DOMAIN calls[c1] /\ "file_path" \in DOMAIN calls[c2]
    /\ calls[c1].file_path = JoinPath(Real(calls[c1].dest), calls[c1].filename)
    /\ calls[c2].file_path = calls[c1].file_path

\* C15: when two concurrent save_file calls for the same filename and the
\* same destination directory both make their existence check before
\* either writes, both return success for the same path with renamed =
\* False, one of the writes replaces the file of the other, and the file
\* holds the bytes of that call only.
C15_RaceLosesOneWrite ==
    \A c1, c2 \in Callers :
        RacingPair(c1, c2) =>
            /\ CallSucceeded(c1) /\ CallSucceeded(c2)
            /\ calls[c1].outcome.value.path = calls[c2].outcome.value.path
            /\ ~calls[c1].outcome.value.renamed /\ ~calls[c2].outcome.value.renamed
            /\ calls[c1].replaced # calls[c2].replaced
            /\ LET later == IF calls[c1].replaced THEN c1 ELSE c2 IN
               NodeOf(fs, Real(calls[c1].file_path)).data = calls[later].content

C15_Witness ==
    /\ RacingPair(1, 2)
    /\ CallSucceeded(1) /\ CallSucceeded(2)
    /\ calls[1].content = "NEW" /\ calls[2].content = "B"
    /\ calls[1].outcome.value.path = calls[2].outcome.value.path
    /\ ~calls[1].outcome.value.renamed /\ ~calls[2].outcome.value.renamed
    /\ NodeOf(fs, Real(calls[1].file_path)).data = "B"
    /\ \A i \in DOMAIN fs : fs[i].data # "NEW"

\* before the last save, the destination was a directory without write
\* permission
ReadOnlyDestination ==
    /\ SaveDone
    /\ IsDir(last.pre, Real(last.dest))
    /\ ModeOf(last.pre, Real(last.dest)) # "rw"

\* C16: when the destination directory exists and is not writable,
\* save_file returns success = False with a permission-denied error and
\* leaves the file system as it was: no directory is created and no file is
\* written.
C16_ReadOnlyDestinationRefused ==
    ReadOnlyDestination =>
        /\ ~last.outcome.raised
        /\ ~last.outcome.value.success
        /\ StartsWith(last.outcome.value.error, "Permission denied")
        /\ fs = last.pre

C16_Witness ==
    /\ ReadOnlyDestination
    /\ last.dest = <<"home", "ro">>
    /\ last.filename = "x.pdf"
    /\ ~last.outcome.value.success
    /\ last.outcome.value.error = "Permission denied: Directory is not writable"
    /\ NodeOf(fs, <<"home", "ro", "x.pdf">>).data = "RO"

\* C17: every file that was there before a save_file call is there after
\* it with the same bytes, also when the calls before it used the same
\* filename within the same second.
C17_NeverOverwrites ==
    SaveDone =>
        \A i \in DOMAIN last.pre :
            last.pre[i].kind = "file" =>
                /\ HasNode(fs, last.pre[i].path)
                /\ NodeOf(fs, last.pre[i].path).data = last.pre[i].data

RECURSIVE EntriesInOrder(_, _)
\* the folder entries of a profile in the order of iteration: depth after
\* depth and, within a depth, name after name
EntriesInOrder(folders, i) ==
    IF i > Len(folders) THEN <<>>
    ELSE [j \in DOMAIN folders[i].names |->
             [depth |-> folders[i].depth, name |-> folders[i].names[j].key,
              count |-> folders[i].names[j].count]]
         \o EntriesInOrder(folders, i + 1)
\* the positions, in the order of iteration, of the entries with the
\* highest score
TopPositions(structured_data, structure) ==
    LET entries == EntriesInOrder(structure.folders, 1) IN
    { k \in DOMAIN entries :
        \A m \in DOMAIN entries :
            ScoreOf(structured_data, structure, entries[m])
                =< ScoreOf(structured_data, structure, entries[k]) }
\* an existing folder is returned: the highest score is at least 5
FolderSelected ==
    /\ SuggestDone
    /\ \E e \in FolderEntries(last.structure) :
          ScoreOf(last.doc, last.structure, e) >= Threshold2
IsPrefix(pre, sq) == Len(pre) =< Len(sq) /\ SubSeq(sq, 1, Len(pre)) = pre

\* C18: when an existing folder is returned, the folder and its evidence
\* are those of the first entry, in the order of iteration over the depths
\* and over the names of a depth, that has the highest score; an entry with
\* the same score that comes later does not replace it.
C18_FirstOfEqualScoresWins ==
    FolderSelected =>
        LET entries == EntriesInOrder(last.structure.folders, 1)
            top == TopPositions(last.doc, last.structure)
            first == CHOOSE k \in top : \A m \in top : k =< m
            e == entries[first]
        IN /\ SelectsFolder(last.result, e.name)
           /\ IsPrefix(FolderScore(last.doc, last.structure.common_extensions,
                                   e.depth, e.name, e.count).evidence,
                       last.result.evidence)

C18_Witness ==
    /\ FolderSelected
    /\ LET entries == EntriesInOrder(last.structure.folders, 1)
           top == TopPositions(last.doc, last.structure)
       IN \E k, m \in top :
             /\ k < m
             /\ entries[k].name # entries[m].name
             /\ \A n \in top : k =< n
             /\ last.result.suggested_path = entries[k].name

\* the intent belongs to a semantic class one of whose words is in the
\* folder name
SemanticMatch(structured_data, folder_lower) ==
    \E class \in { <<FinancialTypes, FinancialWords>>, <<LegalTypes, LegalWords>>,
                   <<ReportTypes, ReportWords>> } :
        /\ Lower(structured_data.intent) \in class[1]
        /\ \E w \in class[2] : Contains(w, folder_lower)
\* twice the score the formula gives a folder entry, the file-type term
\* being with_extension
FormulaScore(structured_data, e, with_extension) ==
    LET folder_lower == Lower(e.name)
        keywords == DocKeywords(structured_data)
        entities == structured_data.key_entities
        keyword_hits == { i \in DOMAIN keywords : Contains(keywords[i], folder_lower) }
        entity_hits ==
            { i \in DOMAIN entities :
                /\ entities[i].isstr
                /\ \/ Contains(Lower(entities[i].val), folder_lower)
                   \/ \E t \in Range(Split(Lower(entities[i].val))) :
                         Contains(t, folder_lower) }
    IN 10 * Cardinality(keyword_hits)
       + (IF SemanticMatch(structured_data, folder_lower) THEN 16 ELSE 0)
       + 12 * Cardinality(entity_hits)
       + 2 * (IF e.count < 5 THEN e.count ELSE 5)
       - e.depth
       + (IF with_extension THEN 6 ELSE 0)

\* C19: the score of every folder entry (depth, name, count) is
\* 5 x (keywords that are substrings of the lowercased name) + 8 if the
\* semantic class of the intent matches the name + 6 x (string entities
\* whose lowercased text, or one of its tokens, is a substring of the name)
\* + min(count, 5) - 0.5 x depth + 3 if the document's extension is in the
\* histogram.
C19_ScoreFormula ==
    SuggestDone =>
        \A e \in FolderEntries(last.structure) :
            ScoreOf(last.doc, last.structure, e) =
                FormulaScore(last.doc, e,
                             HasKey(last.structure.common_extensions,
                                    DocExtension(last.doc)))

EndsWith(s, suffix) ==
    Len(suffix) =< Len(s) /\ SubSeq(s, Len(s) - Len(suffix) + 1, Len(s)) = suffix
\* the document of the last suggestion is an invoice, a receipt, a contract
\* or a report
Yearly ==
    SuggestDone /\ Lower(last.doc.intent) \in {"invoice", "receipt", "contract", "report"}
\* some folder name of the profile carries a year from 2020 to the current one
YearPattern ==
    \E e \in FolderEntries(last.structure) :
        \E y \in 2020..ClockYear : Contains(ToString(y), e.name)

\* C20: the returned path ends with "/<current year>" exactly when the
\* lowercased intent is invoice, receipt, contract or report; then the path
\* is the chosen folder followed by one segment, the current year, whether
\* some folder name carries a year (evidence "Added year folder") or none
\* does (evidence "Creating new year folder").
C20_YearSegment ==
    SuggestDone =>
        LET path == last.result.suggested_path
            year == ToString(ClockYear)
            segs == Segments(path)
        IN /\ Yearly <=> EndsWith(path, "/" \o year)
           /\ Yearly =>
                 /\ Len(segs) = 2
                 /\ segs[2] = year
                 /\ \/ \E e \in FolderEntries(last.structure) : segs[1] = e.name
                    \/ segs[1] = NewFolder(last.doc).path
                 /\ Last(last.result.evidence) =
                       IF YearPattern
                       THEN "Added year folder '" \o year \o "' based on existing pattern"
                       ELSE "Creating new year folder '" \o year \o "' for organization"

C20_Witness ==
    /\ Yearly
    /\ YearPattern
    /\ last.doc.intent = "Invoice"
    /\ last.result.suggested_path = "Invoices_2021/" \o ToString(ClockYear)

\* no folder of the profile scores at least 5 for the document
NoFolderQualifies ==
    /\ SuggestDone
    /\ \A e \in FolderEntries(last.structure) :
          ScoreOf(last.doc, last.structure, e) < Threshold2
\* the folder name the rule of synthesis gives a document
SynthesizedName(structured_data) ==
    LET intent == Lower(structured_data.intent)
        keywords == DocKeywords(structured_data)
    IN IF intent \in {"invoice", "receipt", "payment", "bill"} THEN "Financial_Documents"
       ELSE IF intent \in {"contract", "agreement", "legal"} THEN "Legal_Documents"
       ELSE IF intent \in {"report", "analysis", "study"} THEN "Reports_and_Analysis"
       ELSE IF intent \in {"policy", "handbook", "procedure"} THEN "Policies_and_Procedures"
       ELSE IF keywords = <<>> THEN "Other_Documents"
       ELSE IF Len(keywords) = 1 THEN Title(keywords[1]) \o "_Documents"
       ELSE Title(keywords[1]) \o "_" \o Title(keywords[2]) \o "_Documents"

\* C21: when no folder scores at least 5, the returned folder is the name
\* of the intent's class (Financial_Documents, Legal_Documents,
\* Reports_and_Analysis, Policies_and_Procedures), else the first two
\* keywords title-cased, joined by "_" and followed by "_Documents", else,
\* without any keyword, Other_Documents; the first evidence entry is the
\* 'no matching existing folders found' flag.
C21_SynthesizedName ==
    NoFolderQualifies =>
        /\ SelectsFolder(last.result, SynthesizedName(last.doc))
        /\ last.result.evidence # <<>>
        /\ last.result.evidence[1] = NoMatchFlag

C21_Witness ==
    /\ NoFolderQualifies
    /\ last.doc.intent = "letter"
    /\ Len(DocKeywords(last.doc)) > 2
    /\ last.result.suggested_path = "Letter_Short_Documents"
    /\ last.result.evidence[1] = NoMatchFlag

\* the number of folders called name at relative depth d under the base
\* directory of the last operation
FoldersNamedAt(d, name) ==
    Cardinality({ i \in DOMAIN fs :
                    /\ fs[i].kind = "dir"
                    /\ Len(fs[i].path) = Len(last.base) + d
                    /\ SubSeq(fs[i].path, 1, Len(last.base)) = last.base
                    /\ Last(fs[i].path) = name })
\* the depth keys from 2 on that the claim or the profile speaks of
DeepKeys(folders, max_depth) ==
    ((2..max_depth) \cup { folders[i].depth : i \in DOMAIN folders }) \ {0, 1}
\* the folder names of the tree and of the profile
FolderNames(folders) ==
    { Last(fs[i].path) : i \in { j \in DOMAIN fs : fs[j].kind = "dir" } }
    \cup UNION { { folders[i].names[j].key : j \in DOMAIN folders[i].names } :
                 i \in DOMAIN folders }

\* C22: when the tree has fewer than max_files files, the profile has
\* under every depth key d from 2 to max_depth every folder name of
\* relative depth d, with the number of folders of that name at that depth
\* as its count, and has no folder under another depth key than its own.
C22_DeepFoldersUnderOwnDepth ==
    (CrawlDone /\ FilesBelow < last.max_files) =>
        LET folders == last.outcome.value.folders IN
        \A d \in DeepKeys(folders, last.max_depth) :
            \A name \in FolderNames(folders) :
                CountOf(FoldersAt(folders, d), name) =
                    IF d =< last.max_depth THEN FoldersNamedAt(d, name) ELSE 0

RECURSIVE SignalsOfFiles(_, _)
\* the naming signals of the file names of one directory, in listing order
SignalsOfFiles(files, i) ==
    IF i > Len(files) THEN <<>>
    ELSE NamingSignals(files[i]) \o SignalsOfFiles(files, i + 1)
RECURSIVE SignalsOfWalk(_, _, _, _)
\* the naming signals of the files in the directories of a walk that lie at
\* most max_depth below the base directory, in the order of the walk
SignalsOfWalk(walk, base_path, max_depth, i) ==
    IF i > Len(walk) THEN <<>>
    ELSE (IF Len(walk[i].root) - Len(base_path) =< max_depth
          THEN SignalsOfFiles(walk[i].files, 1) ELSE <<>>)
         \o SignalsOfWalk(walk, base_path, max_depth, i + 1)
\* every observation of a signal by the last crawl, in the order of the crawl
ObservedSignals == SignalsOfWalk(os_walk(fs, last.base), last.base, last.max_depth, 1)
Occurrences(x, sq) == Cardinality({ i \in DOMAIN sq : sq[i] = x })
FirstOccurrence(x, sq) == CHOOSE i \in DOMAIN sq : sq[i] = x /\ \A j \in 1..(i - 1) : sq[j] # x

\* C23: the naming_conventions that analyze_existing_structure derives
\* from a crawl that was not cut short list every observed naming signal
\* once, a signal shown by more file names before one shown by fewer and,
\* of two signals shown by equally many, the one observed first before the
\* other.
C23_ConventionsByFrequency ==
    (CrawlDone /\ FilesBelow < last.max_files) =>
        LET conventions == Insights(last.outcome.value).naming_conventions
            observed == ObservedSignals
        IN /\ Range(conventions) = Range(observed)
           /\ \A i, j \in DOMAIN conventions :
                 i < j =>
                    \/ Occurrences(conventions[i], observed)
                          > Occurrences(conventions[j], observed)
                    \/ /\ Occurrences(conventions[i], observed)
                            = Occurrences(conventions[j], observed)
                       /\ FirstOccurrence(conventions[i], observed)
                            < FirstOccurrence(conventions[j], observed)

\* the extension of the original filename of a document, dot included, or
\* "" when it has none
OriginalExtension(structured_data) ==
    LET parts == Parts(structured_data.filename)
        name == IF parts = <<>> THEN "" ELSE parts[Len(parts)]
        dot == LastDot(name, Len(name))
    IN IF dot > 1 /\ dot < Len(name) THEN SubSeq(name, dot, Len(name)) ELSE ""
NoUpperCase(s) == \A i \in 1..Len(s) : ~IsUpper(CharAt(s, i))

\* C24: the filename composed for a document has no upper-case letter and
\* ends with the lowercased extension of the original filename, or with
\* ".pdf" when the original filename has no extension.
C24_LowercaseWithExtension ==
    AnalyzeDone =>
        LET filename == last.result.suggested_filename
            extension == OriginalExtension(last.doc)
        IN /\ NoUpperCase(filename)
           /\ EndsWith(filename, IF extension = "" THEN ".pdf" ELSE Lower(extension))

C24_Witness ==
    /\ AnalyzeDone
    /\ last.doc.filename = "Scan 01.PDF"
    /\ last.doc.intent = "Invoice"
    /\ last.base = <<"home", "Financial_Documents">>
    /\ last.result.suggested_filename = "invoice-20261104.pdf"

\* C25: the filename composed for a document is one path component: it has
\* no path separator, is not absolute and is not a ".." reference.
C25_FilenameIsOneComponent ==
    AnalyzeDone =>
        LET filename == last.result.suggested_filename IN
        /\ ~Contains("/", filename)
        /\ ~StartsWith(filename, "/")
        /\ filename # ".."

\* before the last save, something stood at destination/filename
FoundAtCheck == SaveDone /\ Exists(last.pre, JoinPath(Real(last.dest), last.filename))

\* C26: a successful save_file call reports renamed = True exactly when
\* destination/filename existed at its existence check; without a
\* collision it reports renamed = False.
C26_RenamedIffCollision ==
    SaveSucceeded => (last.outcome.value.renamed <=> FoundAtCheck)

PerformDone == last.op = "perform"
\* the operation called save_file
PerformSaved == PerformDone /\ last.save_calls = 1
PerformedIndex == last.pre.file_operations.save_file_index
PerformedParams == last.pre.file_operations.save_params
SaveFileSucceeded == session.file_operations.last_save_result.success

\* C27: after a perform_save_operation that called save_file, the state
\* of the document has save_success = True only if that save_file call
\* returned success = True.
C27_SaveSuccessOnlyOnSuccess ==
    PerformSaved =>
        (session.doc_state[PerformedIndex].save_success => SaveFileSucceeded)

NothingPending == PerformDone /\ ~last.pre.file_operations.save_requested

\* C28: save_requested is False after every return of
\* perform_save_operation; a perform_save_operation with no pending request
\* changes neither the session nor the file system and calls save_file not
\* at all; the save_file calls never outnumber the requests, so one request
\* is saved at most once however often perform_save_operation is called.
C28_RequestPerformedOnce ==
    /\ PerformDone => ~session.file_operations.save_requested
    /\ NothingPending =>
           (session = last.pre /\ fs = last.fs_before /\ last.save_calls = 0)
    /\ PerformSaved => last.pre.file_operations.save_requested
    /\ saves =< requests

\* the second perform_save_operation of a rerun, after the first one saved
\* the one request made
C28_Witness ==
    /\ NothingPending
    /\ requests = 1
    /\ saves = 1
    /\ session.doc_state[PerformedIndex].save_attempted

\* C29: every document for which request_save_file was called is handled
\* by a perform_save_operation, also when a request for another document
\* comes before that call: once no request is pending, no requested
\* document is left unperformed.
C29_NoRequestLost ==
    ~session.file_operations.save_requested => unperformed = {}

ObjCallDone == last.op = "call"
\* the values of the arguments before the last call
DocumentBefore == StructuredData(last.before)
ProfileBefore ==
    [folders |-> GetObject(last.before, last.before[EsRef].folders),
     common_extensions |-> GetObject(last.before, last.before[EsRef].common_extensions),
     naming_conventions |-> GetObject(last.before, last.before[EsRef].naming_conventions)]
\* what the function returns for the argument values alone
ResultForArguments ==
    IF last.fn = "suggest"
    THEN suggest_filing_location(DocumentBefore, ProfileBefore, ClockYear)
    ELSE generate_filename(DocumentBefore, ProfileBefore, now)
FirstResult == IF last.fn = "suggest" THEN held.first.suggest ELSE held.first.generate

\* C30: a call of suggest_filing_location or generate_filename leaves the
\* document mapping, the profile mapping and the lists in them as they
\* were, and its result is the one the argument values give and the one
\* the first call on these arguments gave, whatever calls came before.
C30_ArgumentsUntouchedNoMemory ==
    ObjCallDone =>
        /\ held.objs = last.before
        /\ last.result = ResultForArguments
        /\ last.result = FirstResult.value

\* a third call on the same objects, after calls of both functions, that
\* returns evidence collected in a list
C30_Witness ==
    /\ ObjCallDone
    /\ last.fn = "suggest"
    /\ last.earlier = 2
    /\ ~IsNone(held.first.generate)
    /\ Len(last.result.evidence) > 1
    /\ last.before[ConventionsRef] # <<>>

====
